---- MODULE Spec2Model ----
(***************************************************************************)
(* Model of the userspace TCP stack of moonlight-core-rs                    *)
(* (src/app/src/main/jni/moonlight-core-rs/src/tun_stack.rs).               *)
(*                                                                          *)
(* Scaling.  TLC's integers are 32 bit wide, so the u32 sequence space is   *)
(* modelled with SeqBits bits: every wrapping_add / wrapping_sub / `as i32` *)
(* of the source is computed modulo 2^SeqBits, with the sign bit at         *)
(* 2^(SeqBits-1).  The 1 MiB reorder budget and the 1360 byte MSS are       *)
(* scaled to MaxReorderBytes and Mss so that a handful of few-byte          *)
(* segments reaches them.  Time is counted in milliseconds.                 *)
(*                                                                          *)
(* A payload byte is represented by its offset in the peer's byte stream    *)
(* (0, 1, 2, ...), so a payload is the sequence of the offsets it carries   *)
(* and a duplicated, skipped or misordered byte is visible on the channel.  *)
(***************************************************************************)
EXTENDS Integers, Sequences, FiniteSets, TLC

VARIABLES
    tcp_connections,   \* VirtualStack.tcp_connections: conn_id -> TcpControlBlock
    next_local_port,   \* VirtualStack.next_local_port
    next_seq,          \* VirtualStack.next_seq
    outgoing_packets,  \* VirtualStack.outgoing_packets
    notify_count,      \* number of notify_all calls on state_change_condvar
    chan,              \* conn_id -> chunks placed on the receive channel so far
    rx_dropped,        \* conn_ids whose mpsc::Receiver the application dropped
    threads,           \* thread -> post-lock work of process_tcp_packet still to do
    now,               \* Instant::now(), in ms
    env,               \* the environment: the peer's ISN and segments, call counters
    handled,           \* segments handled while the connection was Established
    waiters,           \* caller thread -> its call of wait_for_state_change
    locking,           \* thread -> the mutexes it holds and its lock steps to come
    last               \* the operation the last step performed

vars == << tcp_connections, next_local_port, next_seq, outgoing_packets,
           notify_count, chan, rx_dropped, threads, now, env, handled, waiters,
           locking, last >>

----------------------------------------------------------------------------
(* Bounds of the model *)

SeqBits == 4
MaxReorderBytes == 4
Mss == 2
StreamLen == 5
MaxPkts == 3
NumWaiters == 1
NumThreads == 2
MaxChunks == 2
MaxSegments == 1
MaxSends == 2
MaxSendLen == 3
MaxTicks == 1
TickMs == 500

(* Program constants *)

RtoInitialMs == 500
MaxRtoMs == 8000
MaxRetransmits == 8
FirstPort == 49152
PortLimit == 65000
WindowSize == 65535
TcpWindowScaleShift == 7
StaleTimeWaitSecs == 60
StaleClosedSecs == 5
StaleSynSentSecs == 30
StaleHalfClosedSecs == 120
StaleEstablishedSecs == 600

----------------------------------------------------------------------------
(* u32 arithmetic *)

SeqMod == 2 ^ SeqBits
SeqNums == 0 .. SeqMod - 1

wrapping_add(a, b) == ((a % SeqMod) + (b % SeqMod)) % SeqMod

wrapping_sub(a, b) == ((a % SeqMod) + SeqMod - (b % SeqMod)) % SeqMod

as_i32(x) == IF x >= SeqMod \div 2 THEN x - SeqMod ELSE x

None == << >>
Some(v) == << v >>

Min(S) == CHOOSE x \in S : \A y \in S : x <= y

RECURSIVE Concat(_)
Concat(ss) == IF ss = << >> THEN << >> ELSE Head(ss) \o Concat(Tail(ss))

RECURSIVE SumLen(_)
SumLen(S) ==
    IF S = {} THEN 0
    ELSE LET e == CHOOSE x \in S : TRUE IN Len(e.data) + SumLen(S \ {e})

----------------------------------------------------------------------------
(* TcpFlags *)

SYN == "SYN"
ACK == "ACK"
FIN == "FIN"
RST == "RST"
PSH == "PSH"

(* TcpControlBlock as tcp_connect builds it *)
TcpControlBlock(initial_seq, t) ==
    [ state |-> "SynSent",
      local_seq |-> initial_seq,
      initial_seq |-> initial_seq,
      local_ack |-> 0,
      snd_una |-> initial_seq,
      created_at |-> t,
      last_activity |-> t,
      reorder_buffer |-> {},
      max_reorder_buffer_bytes |-> MaxReorderBytes,
      reorder_buffer_bytes |-> 0,
      pending_fin_seq |-> None,
      retransmit_queue |-> << >>,
      rto |-> RtoInitialMs ]

(* BTreeMap<u32, Vec<u8>>: a set of entries with distinct keys, ordered by *)
(* the unsigned value of the key.                                          *)
buffer_insert(buf, key, data) ==
    { e \in buf : e.key # key } \cup { [key |-> key, data |-> data] }

first_entry(buf) == CHOOSE e \in buf : \A o \in buf : e.key <= o.key

(* The SYN options without the window scale option *)
syn_options_mss_only == << 2, 4, 1360 \div 256, 1360 % 256 >>

(* send_tcp_packet: the packet pushed onto outgoing_packets *)
syn_options == << 2, 4, 1360 \div 256, 1360 % 256, 1, 3, 3, TcpWindowScaleShift >>

send_tcp_packet(conn_id, seq, ack, flags, payload) ==
    [ conn_id |-> conn_id, seq |-> seq, ack |-> ack, flags |-> flags,
      window |-> WindowSize,
      options |-> IF SYN \in flags THEN syn_options ELSE << >>,
      payload |-> payload ]

----------------------------------------------------------------------------
(* process_tcp_packet, the part under the connection-table lock *)

NoAction == [kind |-> "None"]

ack_advances(tcb, ack_num) == as_i32(wrapping_sub(ack_num, tcb.snd_una)) > 0

RECURSIVE pop_acked(_, _)
pop_acked(queue, snd_una) ==
    IF queue = << >> THEN queue
    ELSE LET front == Head(queue)
             seg_end == wrapping_add(front.seq, Len(front.data))
         IN IF as_i32(wrapping_sub(seg_end, snd_una)) <= 0
            THEN pop_acked(Tail(queue), snd_una)
            ELSE queue

process_ack(tcb, h) ==
    IF h.ack /\ ack_advances(tcb, h.acknowledgment_number)
    THEN [tcb EXCEPT !.snd_una = h.acknowledgment_number,
                     !.retransmit_queue = pop_acked(@, h.acknowledgment_number),
                     !.rto = RtoInitialMs]
    ELSE tcb

(* The loop that moves the entries contiguous with local_ack out of the    *)
(* reorder buffer (the same loop at lines 562-572 and 635-644).            *)
RECURSIVE flush_reorder(_, _)
flush_reorder(tcb, segments) ==
    IF tcb.reorder_buffer = {} THEN [tcb |-> tcb, segments |-> segments]
    ELSE LET entry == first_entry(tcb.reorder_buffer)
         IN IF entry.key = tcb.local_ack
            THEN flush_reorder(
                   [tcb EXCEPT !.reorder_buffer = @ \ {entry},
                               !.local_ack = wrapping_add(@, Len(entry.data)),
                               !.reorder_buffer_bytes = @ - Len(entry.data)],
                   Append(segments, entry.data))
            ELSE [tcb |-> tcb, segments |-> segments]

(* The budget check left out: every out-of-order segment is stored *)
reorder_fits_unchecked(tcb, data) == TRUE

reorder_fits(tcb, data) ==
    tcb.reorder_buffer_bytes + Len(data) <= tcb.max_reorder_buffer_bytes

(* The emptiness test left out: a packet without payload is taken as data *)
has_payload_unchecked(h) == TRUE

has_payload(h) == h.payload # << >>

syn_sent(tcb, h, t) ==
    IF h.syn /\ h.ack
    THEN LET n == [tcb EXCEPT !.local_ack = wrapping_add(h.sequence_number, 1),
                              !.local_seq = h.acknowledgment_number,
                              !.snd_una = h.acknowledgment_number,
                              !.state = "Established",
                              !.last_activity = t]
         IN [tcb |-> n,
             action |-> [kind |-> "ConnectionEstablished",
                         seq |-> n.local_seq, ack |-> n.local_ack]]
    ELSE IF h.rst
    THEN [tcb |-> [tcb EXCEPT !.state = "Closed", !.last_activity = t],
          action |-> [kind |-> "ConnectionReset"]]
    ELSE [tcb |-> tcb, action |-> NoAction]

established_rst(tcb, t) ==
    [tcb |-> [tcb EXCEPT !.state = "Closed", !.last_activity = t,
                         !.retransmit_queue = << >>],
     action |-> [kind |-> "SignalEof"]]

established_fin(tcb, h) ==
    LET fin_seq == wrapping_add(h.sequence_number, Len(h.payload))
        seq_diff == as_i32(wrapping_sub(h.sequence_number, tcb.local_ack))
    IN IF seq_diff <= 0
       THEN LET own == has_payload(h) /\ seq_diff = 0
                t1 == IF own
                      THEN [tcb EXCEPT !.local_ack = wrapping_add(@, Len(h.payload))]
                      ELSE tcb
                f == flush_reorder(t1, IF own THEN << h.payload >> ELSE << >>)
                n == [f.tcb EXCEPT !.state = "CloseWait",
                                   !.local_ack = wrapping_add(fin_seq, 1)]
            IN [tcb |-> n,
                action |-> IF f.segments # << >>
                           THEN [kind |-> "SendDataThenFinAck", seq |-> n.local_seq,
                                 ack |-> n.local_ack, data_segments |-> f.segments]
                           ELSE [kind |-> "SendFinAck", seq |-> n.local_seq,
                                 ack |-> n.local_ack]]
       ELSE LET t1 == [tcb EXCEPT !.pending_fin_seq = Some(fin_seq)]
                n == IF has_payload(h) /\ reorder_fits(t1, h.payload)
                     THEN [t1 EXCEPT !.reorder_buffer_bytes = @ + Len(h.payload),
                                     !.reorder_buffer =
                                        buffer_insert(@, h.sequence_number, h.payload)]
                     ELSE t1
            IN [tcb |-> n,
                action |-> [kind |-> "BufferedOutOfOrder", seq |-> n.local_seq,
                            ack |-> n.local_ack]]

data_action(tcb, segments) ==
    IF Len(segments) = 1
    THEN [kind |-> "SendData", seq |-> tcb.local_seq, ack |-> tcb.local_ack,
          data |-> segments[1]]
    ELSE [kind |-> "SendMultipleData", seq |-> tcb.local_seq, ack |-> tcb.local_ack,
          data_segments |-> segments]

(* The duplicate test left out: a retransmitted segment is taken as in order *)
classify_no_duplicate(seq_diff) ==
    IF seq_diff <= 0 THEN "in_order" ELSE "out_of_order"

(* Where a data segment lies relative to the expected sequence number *)
classify(seq_diff) ==
    IF seq_diff < 0 THEN "duplicate"
    ELSE IF seq_diff = 0 THEN "in_order"
    ELSE "out_of_order"

established_data(tcb, h) ==
    LET pkt_seq == h.sequence_number
        expected_seq == tcb.local_ack
        where == classify(as_i32(wrapping_sub(pkt_seq, expected_seq)))
    IN IF where = "duplicate"
       THEN [tcb |-> tcb,
             action |-> [kind |-> "SendAck", seq |-> tcb.local_seq, ack |-> tcb.local_ack]]
       ELSE IF where = "in_order"
       THEN LET t1 == [tcb EXCEPT !.local_ack = wrapping_add(pkt_seq, Len(h.payload))]
                f == flush_reorder(t1, << h.payload >>)
            IN IF f.tcb.pending_fin_seq # None /\ f.tcb.local_ack = f.tcb.pending_fin_seq[1]
               THEN LET n == [f.tcb EXCEPT !.pending_fin_seq = None,
                                           !.state = "CloseWait",
                                           !.local_ack = wrapping_add(f.tcb.pending_fin_seq[1], 1)]
                    IN [tcb |-> n,
                        action |-> [kind |-> "SendDataThenFinAck", seq |-> n.local_seq,
                                    ack |-> n.local_ack, data_segments |-> f.segments]]
               ELSE [tcb |-> f.tcb, action |-> data_action(f.tcb, f.segments)]
       ELSE IF reorder_fits(tcb, h.payload)
       THEN LET n == [tcb EXCEPT !.reorder_buffer_bytes = @ + Len(h.payload),
                                 !.reorder_buffer = buffer_insert(@, pkt_seq, h.payload)]
            IN [tcb |-> n,
                action |-> [kind |-> "BufferedOutOfOrder", seq |-> n.local_seq,
                            ack |-> n.local_ack]]
       ELSE [tcb |-> tcb,
             action |-> [kind |-> "SendAck", seq |-> tcb.local_seq, ack |-> tcb.local_ack]]

established(tcb, h, t) ==
    LET t1 == process_ack([tcb EXCEPT !.last_activity = t], h)
    IN IF h.rst THEN established_rst(t1, t)
       ELSE IF h.fin THEN established_fin(t1, h)
       ELSE IF has_payload(h) THEN established_data(t1, h)
       ELSE [tcb |-> t1, action |-> NoAction]

fin_wait1(tcb, h, t) ==
    LET t1 == [tcb EXCEPT !.last_activity = t]
    IN IF h.rst THEN [tcb |-> [t1 EXCEPT !.state = "Closed"], action |-> NoAction]
       ELSE IF h.fin /\ h.ack
       THEN LET n == [t1 EXCEPT !.state = "TimeWait",
                                !.local_ack = wrapping_add(
                                    wrapping_add(h.sequence_number, Len(h.payload)), 1)]
            IN [tcb |-> n,
                action |-> [kind |-> "SendAck", seq |-> n.local_seq, ack |-> n.local_ack]]
       ELSE IF h.ack THEN [tcb |-> [t1 EXCEPT !.state = "FinWait2"], action |-> NoAction]
       ELSE [tcb |-> t1, action |-> NoAction]

fin_wait2(tcb, h, t) ==
    LET t1 == [tcb EXCEPT !.last_activity = t]
    IN IF h.rst THEN [tcb |-> [t1 EXCEPT !.state = "Closed"], action |-> NoAction]
       ELSE IF h.fin
       THEN LET n == [t1 EXCEPT !.state = "TimeWait",
                                !.local_ack = wrapping_add(
                                    wrapping_add(h.sequence_number, Len(h.payload)), 1)]
            IN [tcb |-> n,
                action |-> [kind |-> "SendAck", seq |-> n.local_seq, ack |-> n.local_ack]]
       ELSE [tcb |-> t1, action |-> NoAction]

close_wait(tcb, h, t) ==
    LET t1 == [tcb EXCEPT !.last_activity = t]
    IN [tcb |-> IF h.rst THEN [t1 EXCEPT !.state = "Closed"] ELSE t1,
        action |-> NoAction]

last_ack(tcb, h, t) ==
    LET t1 == [tcb EXCEPT !.last_activity = t]
    IN [tcb |-> IF h.ack THEN [t1 EXCEPT !.state = "Closed"] ELSE t1,
        action |-> NoAction]

time_wait(tcb, h, t) ==
    LET t1 == [tcb EXCEPT !.last_activity = t]
    IN [tcb |-> t1,
        action |-> IF h.fin
                   THEN [kind |-> "SendAck", seq |-> t1.local_seq, ack |-> t1.local_ack]
                   ELSE NoAction]

(* The match on tcb.state for a packet of a known connection *)
process_known(tcb, h, t) ==
    CASE tcb.state = "SynSent" -> syn_sent(tcb, h, t)
      [] tcb.state = "Established" -> established(tcb, h, t)
      [] tcb.state = "FinWait1" -> fin_wait1(tcb, h, t)
      [] tcb.state = "FinWait2" -> fin_wait2(tcb, h, t)
      [] tcb.state = "CloseWait" -> close_wait(tcb, h, t)
      [] tcb.state = "LastAck" -> last_ack(tcb, h, t)
      [] tcb.state = "TimeWait" -> time_wait(tcb, h, t)
      [] OTHER -> [tcb |-> tcb, action |-> NoAction]

(* The orphan arm without the check of the packet's RST flag *)
orphan_reset_always(h) ==
    IF h.ack
    THEN << send_tcp_packet(h.conn_id, h.acknowledgment_number, 0, {RST}, << >>) >>
    ELSE << send_tcp_packet(h.conn_id, 0,
              wrapping_add(wrapping_add(h.sequence_number, Len(h.payload)),
                           IF h.syn \/ h.fin THEN 1 ELSE 0),
              {RST, ACK}, << >>) >>

(* The known-connection arm and the orphan arm (no TCB: answer with RST,   *)
(* emitted while the table lock is held).                                  *)
orphan_reset(h) ==
    IF h.rst THEN << >>
    ELSE IF h.ack
    THEN << send_tcp_packet(h.conn_id, h.acknowledgment_number, 0, {RST}, << >>) >>
    ELSE << send_tcp_packet(h.conn_id, 0,
              wrapping_add(wrapping_add(h.sequence_number, Len(h.payload)),
                           IF h.syn \/ h.fin THEN 1 ELSE 0),
              {RST, ACK}, << >>) >>

----------------------------------------------------------------------------
(* process_tcp_packet, the part after the lock is released: the action as  *)
(* the list of its steps (a packet emission, a channel send, a notify).    *)

ack_flags_with_fin == {FIN, ACK}

ack_flags == {ACK}

emit_op(conn_id, a) ==
    [op |-> "emit", packet |-> send_tcp_packet(conn_id, a.seq, a.ack, ack_flags, << >>)]

send_op(data, src, on_err) == [op |-> "send", data |-> data, src |-> src, on_err |-> on_err]

send_ops(segments, on_err) ==
    [i \in 1 .. Len(segments) |-> send_op(segments[i], "data", on_err)]

action_ops(conn_id, a) ==
    CASE a.kind = "SendAck" -> << emit_op(conn_id, a) >>
      [] a.kind = "SendFinAck" ->
            << emit_op(conn_id, a), send_op(<< >>, "fin", "ignore") >>
      [] a.kind = "SendData" ->
            << emit_op(conn_id, a), send_op(a.data, "data", "close") >>
      [] a.kind = "SendMultipleData" ->
            << emit_op(conn_id, a) >> \o send_ops(a.data_segments, "close")
      [] a.kind = "SendDataThenFinAck" ->
            << emit_op(conn_id, a) >> \o send_ops(a.data_segments, "break")
               \o << send_op(<< >>, "fin", "ignore") >>
      [] a.kind = "BufferedOutOfOrder" -> << emit_op(conn_id, a) >>
      [] a.kind = "SignalEof" -> << send_op(<< >>, "rst", "ignore") >>
      [] a.kind = "ConnectionEstablished" ->
            << emit_op(conn_id, a), [op |-> "notify"] >>
      [] a.kind = "ConnectionReset" -> << [op |-> "notify"] >>
      [] OTHER -> << >>

(* The caller's threads that may block in wait_for_state_change *)
Waiters == 1 .. NumWaiters

(* A thread that is not inside wait_for_state_change and has not called it *)
NotWaiting == [st |-> "idle", deadline |-> 0]

(* notify_state_change: notify_all wakes every thread parked on the        *)
(* condvar, whose wait_for then reports that it did not time out.  A       *)
(* thread that is not parked at that moment gets nothing.                  *)
notify_state_change(ws) ==
    [w \in DOMAIN ws |->
       IF ws[w].st = "waiting" THEN [ws[w] EXCEPT !.st = "notified"] ELSE ws[w]]

(* The part of the stack one step acts on *)
World == [conns |-> tcp_connections, out |-> outgoing_packets, chan |-> chan,
          notify |-> notify_count]

mark_closed(conns, conn_id) ==
    IF conn_id \in DOMAIN conns
    THEN [conns EXCEPT ![conn_id] = [@ EXCEPT !.state = "Closed", !.last_activity = now]]
    ELSE conns

(* One step of the action of thread work [conn_id, ops] *)
exec_op(w, conn_id, ops) ==
    LET o == Head(ops)
    IN CASE o.op = "emit" ->
              [w |-> [w EXCEPT !.out = Append(@, o.packet)], ops |-> Tail(ops)]
         [] o.op = "notify" ->
              [w |-> [w EXCEPT !.notify = @ + 1], ops |-> Tail(ops)]
         [] o.op = "push" ->
              [w |-> IF conn_id \in DOMAIN w.conns
                     THEN [w EXCEPT !.conns[conn_id].retransmit_queue = Append(@, o.seg)]
                     ELSE w,
               ops |-> Tail(ops)]
         [] o.op = "send" ->
              IF conn_id \notin rx_dropped
              THEN [w |-> [w EXCEPT !.chan[conn_id] =
                              Append(@, [bytes |-> o.data, src |-> o.src])],
                    ops |-> Tail(ops)]
              ELSE IF o.on_err = "close"
              THEN [w |-> [w EXCEPT !.conns = mark_closed(@, conn_id)], ops |-> << >>]
              ELSE IF o.on_err = "break"
              THEN [w |-> w, ops |-> SelectSeq(Tail(ops), LAMBDA x : x.op # "send" \/ x.src # "data")]
              ELSE [w |-> w, ops |-> Tail(ops)]

RECURSIVE run_ops(_, _, _)
run_ops(w, conn_id, ops) ==
    IF ops = << >> THEN w
    ELSE LET r == exec_op(w, conn_id, ops) IN run_ops(r.w, conn_id, r.ops)

(* The locked part applied to the table: the new table, the packets it     *)
(* pushed under the lock, the action it decided.                           *)
process_locked(conns, h) ==
    IF h.conn_id \in DOMAIN conns
    THEN LET r == process_known(conns[h.conn_id], h, now)
         IN [conns |-> [conns EXCEPT ![h.conn_id] = r.tcb], pushed |-> << >>,
             action |-> r.action]
    ELSE [conns |-> conns, pushed |-> orphan_reset(h), action |-> NoAction]

----------------------------------------------------------------------------
(* The environment: the application's calls and the peer's packets *)

Threads == 1 .. NumThreads

LocalIpv4 == "10.0.0.2"
Remotes == { [addr |-> "10.0.0.5", port |-> 80] }

(* The application connects once to each remote endpoint *)
MaxConns == Cardinality(Remotes)

(* generate_initial_seq adds 1 + (subsec_nanos % 1_000_000) to next_seq *)
IsnIncrements == {1}

EmptyMap == [x \in {} |-> x]

MapPut(m, k, v) == [x \in DOMAIN m \cup {k} |-> IF x = k THEN v ELSE m[x]]

MapRemove(m, k) == [x \in DOMAIN m \ {k} |-> m[x]]

Idle == [conn_id |-> None, ops |-> << >>]

(* A thread outside every operation of the stack: it holds no mutex *)
NoCall == [held |-> {}, plan |-> << >>]

AllIdle == \A t \in Threads : threads[t] = Idle

(* The peer's byte stream has StreamLen bytes; byte k travels at sequence  *)
(* number irs + 1 + k.  A segment is [off, len]; its payload is the bytes  *)
(* off .. off+len-1.                                                       *)
Bytes(off, len) == [i \in 1 .. len |-> off + i - 1]

AllSegs == { sg \in [off : 0 .. StreamLen - 1, len : 1 .. Mss] :
               sg.off + sg.len <= StreamLen }

FixedSegs == { sg \in AllSegs : /\ sg.off % Mss = 0
                                /\ \/ sg.len = Mss
                                   \/ sg.off + sg.len = StreamLen }

AllFinOffs == { o \in 0 .. StreamLen : StreamLen - o <= Mss }

PeerIsns == {1, SeqMod - 5}

SeqOf(off) == wrapping_add(env.irs, 1 + off)

Header(c, flags, seq, ack_num, payload) ==
    [ conn_id |-> c, syn |-> SYN \in flags, ack |-> ACK \in flags,
      fin |-> FIN \in flags, rst |-> RST \in flags,
      sequence_number |-> seq, acknowledgment_number |-> ack_num,
      payload |-> payload ]

(* The acknowledgment numbers the peer may use for connection c: an honest *)
(* peer acknowledges between snd_una and local_seq, any byte boundary      *)
(* included, or ("sent") the end of a data packet that was put on the      *)
(* outbound queue; a peer that is not may send any number.                 *)
AckNums(c) ==
    LET tcb == tcp_connections[c]
    IN CASE env.acks = "all" -> {tcb.local_seq}
         [] env.acks = "honest" ->
              { wrapping_add(tcb.snd_una, k) :
                  k \in 0 .. as_i32(wrapping_sub(tcb.local_seq, tcb.snd_una)) }
         [] env.acks = "sent" ->
              { wrapping_add(outgoing_packets[i].seq, Len(outgoing_packets[i].payload)) :
                  i \in { j \in DOMAIN outgoing_packets :
                            /\ outgoing_packets[j].conn_id = c
                            /\ outgoing_packets[j].payload # << >> } }
         [] OTHER -> SeqNums

SynAckPackets(c) ==
    IF tcp_connections[c].state # "SynSent" THEN {}
    ELSE IF "synack_any" \in env.kinds
    THEN { Header(c, {SYN, ACK}, s, a, << >>) : s \in SeqNums, a \in SeqNums }
    ELSE { Header(c, {SYN, ACK}, env.irs, wrapping_add(tcp_connections[c].initial_seq, 1), << >>) }

DataPackets(c) ==
    { Header(c, {ACK}, SeqOf(sg.off), a, Bytes(sg.off, sg.len)) :
        sg \in env.segs, a \in AckNums(c) }

FinPackets(c) ==
    { Header(c, {FIN, ACK}, SeqOf(o), a, Bytes(o, env.len - o)) :
        o \in env.fin_offs, a \in AckNums(c) }

AckPackets(c) == { Header(c, {ACK}, SeqOf(0), a, << >>) : a \in AckNums(c) }

RstPackets(c) == { Header(c, {RST}, SeqOf(0), 0, << >>) }

(* FIN packets without payload at any position of the peer's stream: the   *)
(* tunnel hands the stack whatever arrives for the connection's addresses  *)
(* and ports.                                                              *)
StrayFinPackets(c) ==
    { Header(c, {FIN, ACK}, SeqOf(o), a, << >>) : o \in 0 .. env.len, a \in AckNums(c) }

(* Packets for a 4-tuple: any flags, sequence numbers at both ends of the  *)
(* sequence space, payloads of up to Mss bytes.                            *)
OrphanPackets(c) ==
    { Header(c, flags, seq, a, Bytes(0, n)) :
        flags \in SUBSET {SYN, ACK, FIN, RST}, seq \in {1, SeqMod - 1},
        a \in {0, SeqMod - 2}, n \in 0 .. Mss }

PeerPackets(c) ==
    IF c \notin DOMAIN tcp_connections THEN {}
    ELSE SynAckPackets(c)
         \cup (IF tcp_connections[c].state = "SynSent" THEN {}
               ELSE (IF "data" \in env.kinds THEN DataPackets(c) ELSE {})
                    \cup (IF "fin" \in env.kinds THEN FinPackets(c) ELSE {})
                    \cup (IF "ack" \in env.kinds THEN AckPackets(c) ELSE {})
                    \cup (IF "rst" \in env.kinds THEN RstPackets(c) ELSE {})
                    \cup (IF "fin_any" \in env.kinds THEN StrayFinPackets(c) ELSE {}))

ConnIds == { [local_addr |-> LocalIpv4, local_port |-> p,
              remote_addr |-> r.addr, remote_port |-> r.port] :
               p \in FirstPort .. FirstPort + MaxConns, r \in Remotes }

Env(irs, segs, fin_offs, kinds, acks, max_pkts) ==
    [ irs |-> irs, len |-> StreamLen, segs |-> segs, fin_offs |-> fin_offs, kinds |-> kinds,
      acks |-> acks, max_pkts |-> max_pkts, max_sends |-> MaxSends,
      max_conns |-> MaxConns, max_ticks |-> MaxTicks, tick_sizes |-> {TickMs}, nconns |-> 0, npkts |-> 0, nsends |-> 0,
      nticks |-> 0 ]

(* The stack with no connection in its table and the ISN counter at seq *)
InitStackAt(seq) ==
    /\ tcp_connections = EmptyMap
    /\ next_local_port = FirstPort
    /\ next_seq = seq
    /\ outgoing_packets = << >>
    /\ notify_count = 0
    /\ chan = EmptyMap
    /\ rx_dropped = {}
    /\ threads = [t \in Threads |-> Idle]
    /\ now = 0
    /\ handled = {}
    /\ waiters = [w \in Waiters |-> NotWaiting]
    /\ locking = [t \in Threads |-> NoCall]
    /\ last = [op |-> "new"]

(* VirtualStack::new *)
InitStack == InitStackAt(1000000 % SeqMod)

(* The values of the ISN counter: as new leaves it, and, after earlier     *)
(* connections have advanced it, just below the wrap of the sequence space *)
IsnCounters == {1000000 % SeqMod, SeqMod - 3}

Init ==
    /\ InitStack
    /\ \E irs \in PeerIsns :
         env = Env(irs, AllSegs, AllFinOffs, {"data", "fin", "ack", "rst"}, "all", MaxPkts)

----------------------------------------------------------------------------
(* The operations *)

allocate_port ==
    [port |-> next_local_port,
     next |-> IF next_local_port >= PortLimit THEN FirstPort ELSE next_local_port + 1]

TcpConnect(r) ==
    /\ env.nconns < env.max_conns
    /\ \E increment \in IsnIncrements :
         LET local_port == allocate_port.port
             initial_seq == next_seq
             conn_id == [local_addr |-> LocalIpv4, local_port |-> local_port,
                         remote_addr |-> r.addr, remote_port |-> r.port]
         IN /\ next_local_port' = allocate_port.next
            /\ next_seq' = wrapping_add(next_seq, increment)
            /\ tcp_connections' = MapPut(tcp_connections, conn_id,
                                         TcpControlBlock(initial_seq, now))
            /\ chan' = MapPut(chan, conn_id, << >>)
            /\ rx_dropped' = rx_dropped \ {conn_id}
            /\ outgoing_packets' = Append(outgoing_packets,
                   send_tcp_packet(conn_id, initial_seq, 0, {SYN}, << >>))
            /\ last' = [op |-> "tcp_connect", conn_id |-> conn_id]
    /\ env' = [env EXCEPT !.nconns = @ + 1]
    /\ UNCHANGED << notify_count, waiters, locking, threads, now, handled >>

(* The segment a data packet carries, for the record of what was handled *)
HandledBy(h) ==
    IF /\ h.conn_id \in DOMAIN tcp_connections
       /\ tcp_connections[h.conn_id].state = "Established"
       /\ h.payload # << >> /\ ~h.fin /\ ~h.rst
    THEN { [off |-> h.payload[1], len |-> Len(h.payload)] }
    ELSE {}

(* A limit of the environment that is not set *)
Unbounded == 0 - 1

(* process_incoming_packet, handled from start to end by one thread while  *)
(* no other thread is inside the stack.                                    *)
ProcessIncomingPacket(h) ==
    /\ AllIdle
    /\ env.max_pkts = Unbounded \/ env.npkts < env.max_pkts
    /\ LET r == process_locked(tcp_connections, h)
           w == run_ops([World EXCEPT !.conns = r.conns, !.out = @ \o r.pushed],
                        h.conn_id, action_ops(h.conn_id, r.action))
       IN /\ tcp_connections' = w.conns
          /\ outgoing_packets' = w.out
          /\ chan' = w.chan
          /\ notify_count' = w.notify
          /\ last' = [op |-> "process_incoming_packet", packet |-> h,
                      action |-> r.action.kind]
    /\ handled' = handled \cup HandledBy(h)
    /\ env' = [env EXCEPT !.npkts =
                   IF \/ h.syn /\ h.conn_id \in DOMAIN tcp_connections
                      \/ env.max_pkts = Unbounded
                   THEN @ ELSE @ + 1]
    /\ waiters' = IF notify_count' # notify_count
                   THEN notify_state_change(waiters) ELSE waiters
    /\ UNCHANGED << next_local_port, next_seq, rx_dropped, locking, threads, now >>

(* process_tcp_packet executing the action it decided before it releases  *)
(* the connection-table lock.                                              *)
ProcessLockedExecuting(t, h) ==
    /\ threads[t] = Idle
    /\ env.npkts < env.max_pkts
    /\ LET r == process_locked(tcp_connections, h)
           w == run_ops([World EXCEPT !.conns = r.conns, !.out = @ \o r.pushed],
                        h.conn_id, action_ops(h.conn_id, r.action))
       IN /\ tcp_connections' = w.conns
          /\ outgoing_packets' = w.out
          /\ chan' = w.chan
          /\ notify_count' = w.notify
          /\ last' = [op |-> "process_tcp_packet", thread |-> t, packet |-> h,
                      action |-> r.action.kind]
    /\ handled' = handled \cup HandledBy(h)
    /\ env' = [env EXCEPT !.npkts =
                   IF h.syn /\ h.conn_id \in DOMAIN tcp_connections THEN @ ELSE @ + 1]
    /\ UNCHANGED << next_local_port, next_seq, waiters, locking, threads, rx_dropped, now >>

(* process_tcp_packet up to the release of the connection-table lock, by   *)
(* thread t; the action it decided stays with the thread.                  *)
ProcessLocked(t, h) ==
    /\ threads[t] = Idle
    /\ env.npkts < env.max_pkts
    /\ LET r == process_locked(tcp_connections, h)
           ops == action_ops(h.conn_id, r.action)
       IN /\ tcp_connections' = r.conns
          /\ outgoing_packets' = outgoing_packets \o r.pushed
          /\ threads' = [threads EXCEPT ![t] =
                           IF ops = << >> THEN Idle
                           ELSE [conn_id |-> Some(h.conn_id), ops |-> ops]]
          /\ last' = [op |-> "process_tcp_packet", thread |-> t, packet |-> h,
                      action |-> r.action.kind]
    /\ handled' = handled \cup HandledBy(h)
    /\ env' = [env EXCEPT !.npkts =
                   IF h.syn /\ h.conn_id \in DOMAIN tcp_connections THEN @ ELSE @ + 1]
    /\ UNCHANGED << next_local_port, next_seq, notify_count, waiters, locking, chan, rx_dropped, now >>

(* The next step of the work thread t holds after its locked part: a step *)
(* of the action process_tcp_packet decided, or of the loop of tcp_send.   *)
ExecStep(t) ==
    /\ threads[t] # Idle
    /\ LET r == exec_op(World, threads[t].conn_id[1], threads[t].ops)
       IN /\ tcp_connections' = r.w.conns
          /\ outgoing_packets' = r.w.out
          /\ chan' = r.w.chan
          /\ notify_count' = r.w.notify
          /\ threads' = [threads EXCEPT ![t] =
                           IF r.ops = << >> THEN Idle ELSE [@ EXCEPT !.ops = r.ops]]
          /\ last' = [op |-> "execute_action", thread |-> t,
                      conn_id |-> threads[t].conn_id[1],
                      step |-> Head(threads[t].ops).op]
    /\ waiters' = IF notify_count' # notify_count
                   THEN notify_state_change(waiters) ELSE waiters
    /\ UNCHANGED << next_local_port, next_seq, rx_dropped, locking, now, env, handled >>

(* A take that returns the queue and leaves it as it is *)
take_copy(out) == [returned |-> out, out |-> out]

(* std::mem::take on the locked queue: the contents are returned and the   *)
(* queue is left empty.                                                    *)
take(out) == [returned |-> out, out |-> << >>]

(* take_outgoing_packets *)
TakeOutgoingPackets ==
    /\ outgoing_packets' = take(outgoing_packets).out
    /\ last' = [op |-> "take_outgoing_packets",
                packets |-> take(outgoing_packets).returned]
    /\ UNCHANGED << tcp_connections, next_local_port, next_seq, notify_count, waiters, locking,
                    chan, rx_dropped, threads, now, env, handled >>

(* No segmentation: the data goes out as one segment *)
chunks_whole(data, mss) == << data >>

(* data.chunks(mss) *)
chunks(data, mss) ==
    [i \in 1 .. (Len(data) + mss - 1) \div mss |->
        SubSeq(data, (i - 1) * mss + 1, IF i * mss < Len(data) THEN i * mss ELSE Len(data))]

RECURSIVE send_chunks(_, _, _, _, _, _)
send_chunks(w, conn_id, seq, ack, cs, i) ==
    IF i > Len(cs) THEN w
    ELSE LET flags == IF i = Len(cs) THEN {ACK, PSH} ELSE {ACK}
             seg == [seq |-> seq, data |-> cs[i], flags |-> flags, sent_at |-> now,
                     retransmit_count |-> 0]
             w1 == [w EXCEPT !.out = Append(@, send_tcp_packet(conn_id, seq, ack, flags, cs[i]))]
             w2 == IF conn_id \in DOMAIN w1.conns
                   THEN [w1 EXCEPT !.conns[conn_id].retransmit_queue = Append(@, seg)]
                   ELSE w1
         IN send_chunks(w2, conn_id, wrapping_add(seq, Len(cs[i])), ack, cs, i + 1)

(* The state test left out: tcp_send sends in every state *)
sendable_any(state) == TRUE

sendable(state) == state \in {"Established", "CloseWait"}

tcp_send(w, conn_id, data) ==
    IF conn_id \notin DOMAIN w.conns \/ ~sendable(w.conns[conn_id].state)
    THEN [w |-> w, result |-> "NotConnected"]
    ELSE LET tcb == w.conns[conn_id]
             w1 == [w EXCEPT !.conns[conn_id] =
                        [tcb EXCEPT !.last_activity = now,
                                    !.local_seq = wrapping_add(@, Len(data))]]
         IN [w |-> send_chunks(w1, conn_id, tcb.local_seq, tcb.local_ack,
                               chunks(data, Mss), 1),
             result |-> "Ok"]

TcpSend(c, n) ==
    /\ AllIdle
    /\ env.nsends < env.max_sends
    /\ LET r == tcp_send(World, c, Bytes(0, n))
       IN /\ tcp_connections' = r.w.conns
          /\ outgoing_packets' = r.w.out
          /\ last' = [op |-> "tcp_send", conn_id |-> c, len |-> n, result |-> r.result]
    /\ env' = [env EXCEPT !.nsends = @ + 1]
    /\ UNCHANGED << next_local_port, next_seq, notify_count, waiters, locking, chan, rx_dropped,
                    threads, now, handled >>

(* The loop of tcp_send over the chunks from the i-th on, as the steps it  *)
(* takes after the sequence numbers were reserved: each chunk is sent and  *)
(* then, under the table's lock taken anew, pushed onto the retransmit     *)
(* queue.                                                                  *)
RECURSIVE tcp_send_ops(_, _, _, _, _)
tcp_send_ops(conn_id, seq, ack, cs, i) ==
    IF i > Len(cs) THEN << >>
    ELSE LET flags == IF i = Len(cs) THEN {ACK, PSH} ELSE {ACK}
         IN << [op |-> "emit", packet |-> send_tcp_packet(conn_id, seq, ack, flags, cs[i])],
               [op |-> "push", seg |-> [seq |-> seq, data |-> cs[i], flags |-> flags,
                                        sent_at |-> now, retransmit_count |-> 0]] >>
            \o tcp_send_ops(conn_id, wrapping_add(seq, Len(cs[i])), ack, cs, i + 1)

(* tcp_send up to the release of the table's lock: the state test and the  *)
(* reservation of the sequence numbers; the loop over the chunks is left   *)
(* to do.                                                                  *)
tcp_send_locked(conns, conn_id, data) ==
    IF conn_id \notin DOMAIN conns \/ ~sendable(conns[conn_id].state)
    THEN [conns |-> conns, ops |-> << >>, result |-> "NotConnected"]
    ELSE LET tcb == conns[conn_id]
         IN [conns |-> [conns EXCEPT ![conn_id] =
                          [tcb EXCEPT !.last_activity = now,
                                      !.local_seq = wrapping_add(@, Len(data))]],
             ops |-> tcp_send_ops(conn_id, tcb.local_seq, tcb.local_ack,
                                  chunks(data, Mss), 1),
             result |-> "Ok"]

(* tcp_send by thread t, up to the release of the table's lock *)
TcpSendLocked(t, c, n) ==
    /\ threads[t] = Idle
    /\ env.nsends < env.max_sends
    /\ LET r == tcp_send_locked(tcp_connections, c, Bytes(0, n))
       IN /\ tcp_connections' = r.conns
          /\ threads' = [threads EXCEPT ![t] =
                           IF r.ops = << >> THEN Idle
                           ELSE [conn_id |-> Some(c), ops |-> r.ops]]
          /\ last' = [op |-> "tcp_send", thread |-> t, conn_id |-> c, len |-> n,
                      result |-> r.result]
    /\ env' = [env EXCEPT !.nsends = @ + 1]
    /\ UNCHANGED << next_local_port, next_seq, outgoing_packets, notify_count, waiters,
                    locking, chan, rx_dropped, now, handled >>

(* tcp_close that leaves the retransmit queue as it is *)
tcp_close_keeping_queue(w, conn_id) ==
    IF conn_id \notin DOMAIN w.conns THEN w
    ELSE LET tcb == w.conns[conn_id]
             fin == send_tcp_packet(conn_id, tcb.local_seq, tcb.local_ack, {FIN, ACK}, << >>)
         IN CASE tcb.state = "Established" ->
                   [w EXCEPT !.conns[conn_id] = [tcb EXCEPT !.state = "FinWait1"],
                             !.out = Append(@, fin)]
              [] tcb.state = "CloseWait" ->
                   [w EXCEPT !.conns[conn_id] = [tcb EXCEPT !.state = "LastAck"],
                             !.out = Append(@, fin)]
              [] OTHER -> w

tcp_close(w, conn_id) ==
    IF conn_id \notin DOMAIN w.conns THEN w
    ELSE LET tcb == [w.conns[conn_id] EXCEPT !.retransmit_queue = << >>]
             fin == send_tcp_packet(conn_id, tcb.local_seq, tcb.local_ack, {FIN, ACK}, << >>)
         IN CASE tcb.state = "Established" ->
                   [w EXCEPT !.conns[conn_id] = [tcb EXCEPT !.state = "FinWait1"],
                             !.out = Append(@, fin)]
              [] tcb.state = "CloseWait" ->
                   [w EXCEPT !.conns[conn_id] = [tcb EXCEPT !.state = "LastAck"],
                             !.out = Append(@, fin)]
              [] OTHER -> [w EXCEPT !.conns[conn_id] = tcb]

TcpClose(c) ==
    /\ LET w == tcp_close(World, c)
       IN /\ tcp_connections' = w.conns
          /\ outgoing_packets' = w.out
    /\ last' = [op |-> "tcp_close", conn_id |-> c]
    /\ UNCHANGED << next_local_port, next_seq, notify_count, waiters, locking, chan, rx_dropped,
                    threads, now, env, handled >>

RemoveTcpConnection(c) ==
    /\ tcp_connections' = MapRemove(tcp_connections, c)
    /\ last' = [op |-> "remove_tcp_connection", conn_id |-> c]
    /\ UNCHANGED << next_local_port, next_seq, outgoing_packets, notify_count, waiters, locking, chan,
                    rx_dropped, threads, now, env, handled >>

under_limit(seg) == seg.retransmit_count < MaxRetransmits

(* The cap left out: the RTO doubles without end *)
backoff_uncapped(rto) == rto * 2

(* Exponential backoff for RTO *)
backoff(rto) == IF rto * 2 < MaxRtoMs THEN rto * 2 ELSE MaxRtoMs

(* The walk of one connection's retransmit queue from position i, in       *)
(* check_retransmissions: a segment whose RTO has not expired ends the     *)
(* walk, one that is due and below the limit is retransmitted and ends the *)
(* walk, one that is due and at the limit is passed over (`continue`) and  *)
(* the walk goes on with the segment behind it.                            *)
RECURSIVE retransmit_scan(_, _, _)
retransmit_scan(tcb, conn_id, i) ==
    IF i > Len(tcb.retransmit_queue)
    THEN [tcb |-> tcb, to_retransmit |-> << >>]
    ELSE LET seg == tcb.retransmit_queue[i]
         IN IF now - seg.sent_at >= tcb.rto
            THEN IF ~under_limit(seg)
                 THEN retransmit_scan(tcb, conn_id, i + 1)
                 ELSE [tcb |-> [tcb EXCEPT
                          !.retransmit_queue[i] =
                              [seg EXCEPT !.retransmit_count = @ + 1, !.sent_at = now],
                          !.rto = backoff(tcb.rto)],
                       to_retransmit |-> << [conn_id |-> conn_id, seq |-> seg.seq,
                                             data |-> seg.data, flags |-> seg.flags,
                                             ack |-> tcb.local_ack] >>]
            ELSE [tcb |-> tcb, to_retransmit |-> << >>]

(* One connection's visit in check_retransmissions: the TCB after the      *)
(* visit and what the visit pushed onto to_retransmit.                     *)
retransmit_head(tcb, conn_id) ==
    IF ~sendable(tcb.state)
    THEN [tcb |-> tcb, to_retransmit |-> << >>]
    ELSE retransmit_scan(tcb, conn_id, 1)

(* The orders in which conns.iter_mut() may visit the connections of a     *)
(* HashMap: every sequence that holds each of them once.                   *)
Orders(S) ==
    { o \in [1 .. Cardinality(S) -> S] : \A x \in S : \E i \in DOMAIN o : o[i] = x }

(* The locked part: the table after the visits and to_retransmit *)
RECURSIVE retransmit_all(_, _, _)
retransmit_all(conns, order, to_retransmit) ==
    IF order = << >> THEN [conns |-> conns, to_retransmit |-> to_retransmit]
    ELSE LET c == Head(order)
             r == retransmit_head(conns[c], c)
         IN retransmit_all([conns EXCEPT ![c] = r.tcb], Tail(order),
                           to_retransmit \o r.to_retransmit)

CheckRetransmissions ==
    /\ \E order \in Orders(DOMAIN tcp_connections) :
         LET r == retransmit_all(tcp_connections, order, << >>)
         IN /\ tcp_connections' = r.conns
            /\ outgoing_packets' = outgoing_packets \o
                  [i \in 1 .. Len(r.to_retransmit) |->
                      LET x == r.to_retransmit[i]
                      IN send_tcp_packet(x.conn_id, x.seq, x.ack, x.flags, x.data)]
            /\ last' = [op |-> "check_retransmissions", count |-> Len(r.to_retransmit)]
    /\ UNCHANGED << next_local_port, next_seq, notify_count, waiters, locking, chan, rx_dropped,
                    threads, now, env, handled >>

(* Time passes: Instant::now() is later by one of the environment's steps *)
Tick ==
    /\ env.nticks < env.max_ticks
    /\ \E dt \in env.tick_sizes : now' = now + dt
    /\ env' = [env EXCEPT !.nticks = @ + 1]
    /\ last' = [op |-> "tick"]
    /\ UNCHANGED << tcp_connections, next_local_port, next_seq, outgoing_packets,
                    notify_count, waiters, locking, chan, rx_dropped, threads, handled >>

(* The timeouts the caller passes to wait_for_state_change *)
WaitTimeouts == {2 * TickMs}

(* is_tcp_established *)
is_tcp_established(c) ==
    c \in DOMAIN tcp_connections /\ tcp_connections[c].state = "Established"

(* wait_for_state_change(timeout) by thread w, up to where the thread is   *)
(* parked on the condvar.                                                  *)
WaitForStateChange(w, timeout) ==
    /\ waiters[w].st # "waiting"
    /\ waiters' = [waiters EXCEPT ![w] = [st |-> "waiting", deadline |-> now + timeout]]
    /\ last' = [op |-> "wait_for_state_change", waiter |-> w]
    /\ UNCHANGED << tcp_connections, next_local_port, next_seq, outgoing_packets,
                    notify_count, chan, rx_dropped, locking, threads, now, env, handled >>

(* wait_for times out in thread w: wait_for_state_change returns false *)
WaitTimedOut(w) ==
    /\ waiters[w].st = "waiting"
    /\ now >= waiters[w].deadline
    /\ waiters' = [waiters EXCEPT ![w] = [@ EXCEPT !.st = "timed_out"]]
    /\ last' = [op |-> "wait_for_state_change", waiter |-> w, result |-> FALSE]
    /\ UNCHANGED << tcp_connections, next_local_port, next_seq, outgoing_packets,
                    notify_count, chan, rx_dropped, locking, threads, now, env, handled >>

(* The three mutexes of VirtualStack *)
TableLock == "tcp_connections"
QueueLock == "outgoing_packets"
StateLock == "state_change_mutex"

(* The steps of an operation that matter to locking: taking a mutex,       *)
(* dropping its guard, parking on the condvar (which gives the mutex up    *)
(* until the thread is woken or times out), and a send on the bounded      *)
(* channel to the application, which blocks while the channel is full.     *)
lock(m) == [op |-> "lock", m |-> m]
unlock(m) == [op |-> "unlock", m |-> m]
wait_for(m) == [op |-> "wait_for", m |-> m]
tx_send == [op |-> "tx_send"]

(* The steps `body` k times over *)
RECURSIVE Repeat(_, _)
Repeat(body, k) == IF k = 0 THEN << >> ELSE body \o Repeat(body, k - 1)

(* A block that holds the connection table's guard around `inner` *)
table_block(inner) == << lock(TableLock) >> \o inner \o << unlock(TableLock) >>

(* send_tcp_packet: self.outgoing_packets.lock().push(packet) *)
send_tcp_packet_locks == << lock(QueueLock), unlock(QueueLock) >>

(* wait_for_state_change: the guard is taken, given up while the thread is *)
(* parked, taken again when wait_for returns, and dropped.                 *)
wait_for_state_change_locks ==
    << lock(StateLock), wait_for(StateLock), lock(StateLock), unlock(StateLock) >>

(* tcp_connect: the insert under the table's guard, then the SYN *)
tcp_connect_locks == table_block(<< >>) \o send_tcp_packet_locks

(* tcp_send that pushes onto the retransmit queue before the queue's guard *)
(* is dropped                                                              *)
tcp_send_locks_nested(k) ==
    table_block(<< >>) \o
    Repeat(<< lock(QueueLock) >> \o table_block(<< >>) \o << unlock(QueueLock) >>, k)

(* tcp_send of k chunks: the sequence numbers are reserved under the       *)
(* table's guard; each chunk is sent and then, under the table's guard     *)
(* again, pushed onto the retransmit queue.                                *)
tcp_send_locks(k) ==
    table_block(<< >>) \o Repeat(send_tcp_packet_locks \o table_block(<< >>), k)

(* tcp_close: returns after the block, or sends the FIN *)
tcp_close_locks == { table_block(<< >>), table_block(<< >>) \o send_tcp_packet_locks }

(* is_tcp_established, get_tcp_state, remove_tcp_connection,               *)
(* cleanup_stale_connections, connection_count                             *)
table_only_locks == table_block(<< >>)

(* resend_syn_if_pending *)
resend_syn_if_pending_locks ==
    { table_block(<< >>), table_block(<< >>) \o send_tcp_packet_locks }

(* check_retransmissions that finds k segments to send *)
check_retransmissions_locks(k) == table_block(<< >>) \o Repeat(send_tcp_packet_locks, k)

(* take_outgoing_packets *)
take_outgoing_packets_locks == << lock(QueueLock), unlock(QueueLock) >>

(* execute_action, by the kind of action; j is the number of data          *)
(* segments, and a failed send of data marks the connection Closed under   *)
(* the table's guard.                                                      *)
execute_action_locks ==
    { << >>, << tx_send >>, send_tcp_packet_locks, send_tcp_packet_locks \o << tx_send >>,
      send_tcp_packet_locks \o << tx_send >> \o table_block(<< >>) }
    \cup { send_tcp_packet_locks \o Repeat(<< tx_send >>, j) : j \in 1 .. MaxSegments + 1 }
    \cup { send_tcp_packet_locks \o Repeat(<< tx_send >>, j) \o table_block(<< >>) :
              j \in 1 .. MaxSegments }

(* process_tcp_packet: for a packet of no connection the RST is sent       *)
(* inside the block (or nothing is sent); for a known connection the       *)
(* action is decided inside the block and executed after it.               *)
process_tcp_packet_locks ==
    { table_block(send_tcp_packet_locks) }
    \cup { table_block(<< >>) \o a : a \in execute_action_locks }

(* The operations of the stack, each as its steps *)
Operations ==
    { wait_for_state_change_locks, tcp_connect_locks, table_only_locks,
      take_outgoing_packets_locks }
    \cup { tcp_send_locks(k) : k \in 0 .. MaxChunks }
    \cup tcp_close_locks \cup resend_syn_if_pending_locks
    \cup { check_retransmissions_locks(k) : k \in 0 .. MaxConns }
    \cup process_tcp_packet_locks

(* The threads that hold mutex m *)
Holder(m) == { u \in Threads : m \in locking[u].held }

(* Thread t enters an operation of the stack *)
Call(t, plan) ==
    /\ locking[t] = NoCall
    /\ plan # << >>
    /\ locking' = [locking EXCEPT ![t] = [held |-> {}, plan |-> plan]]
    /\ last' = [op |-> "call", thread |-> t]
    /\ UNCHANGED << tcp_connections, next_local_port, next_seq, outgoing_packets,
                    notify_count, waiters, chan, rx_dropped, threads, now, env, handled >>

(* Thread t takes the next step of its operation; Mutex::lock returns once *)
(* no thread holds the mutex.                                              *)
LockStep(t) ==
    /\ locking[t].plan # << >>
    /\ LET s == Head(locking[t].plan)
       IN /\ s.op = "lock" => Holder(s.m) = {}
          /\ locking' = [locking EXCEPT ![t] =
                [held |-> CASE s.op = "lock" -> locking[t].held \cup {s.m}
                            [] s.op \in {"unlock", "wait_for"} -> locking[t].held \ {s.m}
                            [] OTHER -> locking[t].held,
                 plan |-> Tail(locking[t].plan)]]
          /\ last' = [op |-> s.op, thread |-> t]
    /\ UNCHANGED << tcp_connections, next_local_port, next_seq, outgoing_packets,
                    notify_count, waiters, chan, rx_dropped, threads, now, env, handled >>

(* The threads of the application and of the tunnel call into the stack,   *)
(* each operation taking and dropping its mutexes step by step.            *)
InitLocks ==
    /\ InitStack
    /\ env = Env(1, {}, {0}, {}, "all", 0)

NextLocks ==
    \/ \E t \in Threads : \E plan \in Operations : Call(t, plan)
    \/ \E t \in Threads : LockStep(t)

SpecLocks == InitLocks /\ [][NextLocks]_vars

(* The longest elapsed time the stack tells apart: every comparison of an  *)
(* elapsed time is against a threshold below it.                           *)
AgeCap == 1000 * (StaleEstablishedSecs + 1)

(* An Instant, dt later, as seen from the current instant *)
aged(t, dt) == IF t - dt < now - AgeCap THEN now - AgeCap ELSE t - dt

(* Time passes without end: the clock reading stays and every stored       *)
(* Instant moves back by the time passed, no further than AgeCap.          *)
Elapse ==
    /\ env.max_ticks = Unbounded
    /\ \E dt \in env.tick_sizes :
         tcp_connections' =
            [c \in DOMAIN tcp_connections |->
               [tcp_connections[c] EXCEPT
                  !.created_at = aged(@, dt),
                  !.last_activity = aged(@, dt),
                  !.retransmit_queue =
                     [i \in 1 .. Len(@) |-> [@[i] EXCEPT !.sent_at = aged(@, dt)]]]]
    /\ last' = [op |-> "tick"]
    /\ UNCHANGED << next_local_port, next_seq, outgoing_packets, notify_count, waiters, locking, chan,
                    rx_dropped, threads, now, env, handled >>

(* Duration::as_secs of a duration in milliseconds: the whole seconds *)
as_secs_rounded_up(ms) == (ms + 999) \div 1000

as_secs(ms) == ms \div 1000

(* The closure of cleanup_stale_connections: whether a TCB is stale *)
stale(tcb) ==
    CASE tcb.state = "TimeWait" -> as_secs(now - tcb.last_activity) > StaleTimeWaitSecs
      [] tcb.state = "Closed" -> as_secs(now - tcb.last_activity) > StaleClosedSecs
      [] tcb.state = "SynSent" -> as_secs(now - tcb.created_at) > StaleSynSentSecs
      [] tcb.state \in {"FinWait1", "FinWait2", "CloseWait", "LastAck"} ->
            as_secs(now - tcb.last_activity) > StaleHalfClosedSecs
      [] tcb.state = "Established" ->
            as_secs(now - tcb.last_activity) > StaleEstablishedSecs

CleanupStaleConnections ==
    /\ LET before == Cardinality(DOMAIN tcp_connections)
           kept == { c \in DOMAIN tcp_connections : ~stale(tcp_connections[c]) }
       IN /\ tcp_connections' = [c \in kept |-> tcp_connections[c]]
          /\ last' = [op |-> "cleanup_stale_connections",
                      count |-> before - Cardinality(kept)]
    /\ UNCHANGED << next_local_port, next_seq, outgoing_packets, notify_count, waiters, locking, chan,
                    rx_dropped, threads, now, env, handled >>

(* The application drops the Receiver of connection c *)
DropReceiver(c) ==
    /\ c \notin rx_dropped
    /\ rx_dropped' = rx_dropped \cup {c}
    /\ last' = [op |-> "drop_receiver", conn_id |-> c]
    /\ UNCHANGED << tcp_connections, next_local_port, next_seq, outgoing_packets,
                    notify_count, waiters, locking, chan, threads, now, env, handled >>


Next ==
    \/ \E r \in Remotes : TcpConnect(r)
    \/ \E c \in DOMAIN tcp_connections : \E h \in PeerPackets(c) : ProcessIncomingPacket(h)

Spec == Init /\ [][Next]_vars

(* The peer sends its stream in segments of Mss bytes, the FIN after the   *)
(* last byte; packets may be lost, repeated and reordered.                 *)
InitFixed ==
    /\ InitStack
    /\ \E irs \in PeerIsns :
         env = Env(irs, FixedSegs, {StreamLen}, {"data", "fin"}, "all", MaxPkts + 1)

SpecFixed == InitFixed /\ [][Next]_vars

(* The peer's data segments arrive, and FIN packets of any sequence number *)
InitStrayFin ==
    /\ InitStack
    /\ env = Env(1, FixedSegs, {}, {"data", "fin_any"}, "all", MaxPkts)

SpecStrayFin == InitStrayFin /\ [][Next]_vars

(* Several threads inside process_incoming_packet at once *)
InitConc ==
    /\ InitStack
    /\ \E irs \in PeerIsns :
         env = Env(irs, FixedSegs, {StreamLen}, {"data", "fin"}, "all", MaxPkts)

NextConc ==
    \/ \E r \in Remotes : TcpConnect(r)
    \/ \E t \in Threads : \E c \in DOMAIN tcp_connections :
          \E h \in PeerPackets(c) : ProcessLocked(t, h)
    \/ \E t \in Threads : ExecStep(t)

SpecConc == InitConc /\ [][NextConc]_vars

(* Threads of the application inside tcp_send while the tunnel's threads   *)
(* handle the peer's acknowledgments of what was put on the outbound queue *)
(* and the retransmission timer is polled.                                 *)
InitSendConc ==
    /\ InitStack
    /\ env = [Env(1, {}, {0}, {"ack"}, "sent", MaxPkts - 2) EXCEPT !.len = 0]

NextSendConc ==
    \/ \E r \in Remotes : TcpConnect(r)
    \/ \E t \in Threads : \E c \in DOMAIN tcp_connections :
          \E h \in PeerPackets(c) : ProcessLocked(t, h)
    \/ \E t \in Threads : ExecStep(t)
    \/ \E t \in Threads : \E c \in DOMAIN tcp_connections :
          \E n \in 1 .. MaxSendLen : TcpSendLocked(t, c, n)
    \/ CheckRetransmissions
    \/ Tick

SpecSendConc == InitSendConc /\ [][NextSendConc]_vars

(* The application sends and polls the retransmission timer; the peer     *)
(* acknowledges.                                                           *)
InitSend ==
    /\ InitStack
    /\ env = Env(1, {}, {}, {"ack"}, "honest", MaxPkts)

InitAnyAck ==
    /\ InitStack
    /\ env = Env(1, {}, {}, {"ack"}, "any", MaxPkts)

NextSend ==
    \/ Next
    \/ \E c \in DOMAIN tcp_connections : \E n \in 1 .. MaxSendLen : TcpSend(c, n)
    \/ CheckRetransmissions
    \/ Tick

SpecSend == InitSend /\ [][NextSend]_vars

SpecAnyAck == InitAnyAck /\ [][NextSend]_vars

(* The application sends, closes, drops its Receiver and removes the       *)
(* connection while packets are handled and the timers are polled; the     *)
(* peer's stream is one segment, sent with or before its FIN.              *)
InitClose ==
    /\ InitStack
    /\ env = [Env(1, {[off |-> 0, len |-> Mss]}, {0, Mss}, {"data", "fin", "rst"}, "all",
                  MaxPkts - 1) EXCEPT !.len = Mss, !.max_sends = MaxSends - 1]

NextClose ==
    \/ NextConc
    \/ \E c \in DOMAIN tcp_connections : \E n \in 1 .. MaxSendLen : TcpSend(c, n)
    \/ \E c \in DOMAIN tcp_connections : TcpClose(c)
    \/ \E c \in DOMAIN tcp_connections : RemoveTcpConnection(c)
    \/ \E c \in DOMAIN tcp_connections : DropReceiver(c)
    \/ CheckRetransmissions
    \/ Tick

SpecClose == InitClose /\ [][NextClose]_vars

----------------------------------------------------------------------------
(* What the receive channel of connection c holds *)

Chunks(c) == [i \in 1 .. Len(chan[c]) |-> chan[c][i].bytes]

Delivered(c) == Concat(Chunks(c))

Tcb(c) == tcp_connections[c]

LastPacket == last.op = "process_incoming_packet"

(* C2: with inbound packets handled one at a time, the concatenation of    *)
(* the chunks delivered on a receive channel is at every moment a prefix   *)
(* of the byte stream the peer sent: bytes 0, 1, 2, ... in order, none     *)
(* twice, none skipped.                                                    *)
C2_DeliveredIsPrefix ==
    \A c \in DOMAIN chan : Delivered(c) = Bytes(0, Len(Delivered(c)))

(* C2 witness: the whole stream was delivered, the last packet having      *)
(* released segments that had arrived ahead of it.                         *)
C2_Witness ==
    \E c \in DOMAIN chan :
        /\ Delivered(c) = Bytes(0, StreamLen)
        /\ LastPacket /\ last.action = "SendMultipleData"

(* C5: an empty chunk on a receive channel is the EOF marker of a peer FIN *)
(* or RST, placed when that FIN or RST was handled (the connection has     *)
(* left Established); a chunk that carries a data segment is never empty.  *)
C5_EmptyChunkOnlyEof ==
    \A c \in DOMAIN chan : \A i \in 1 .. Len(chan[c]) :
        /\ chan[c][i].src = "data" => chan[c][i].bytes # << >>
        /\ chan[c][i].bytes = << >> =>
              /\ chan[c][i].src \in {"fin", "rst"}
              /\ c \in DOMAIN tcp_connections =>
                    Tcb(c).state \notin {"SynSent", "Established"}

(* C5 witness: a channel holds a data chunk first and the empty EOF chunk  *)
(* of the peer's FIN last.                                                 *)
C5_Witness ==
    \E c \in DOMAIN chan :
        /\ Len(chan[c]) >= 2
        /\ chan[c][1].src = "data"
        /\ chan[c][Len(chan[c])].src = "fin"

(* C9: reorder_buffer_bytes equals the sum of the lengths of the payloads  *)
(* stored in reorder_buffer.                                               *)
C9_ReorderBytesIsSum ==
    \A c \in DOMAIN tcp_connections :
        Tcb(c).reorder_buffer_bytes = SumLen(Tcb(c).reorder_buffer)

(* An ACK without payload for connection c, as send_tcp_packet builds it *)
PlainAck(c, seq, ack) == send_tcp_packet(c, seq, ack, {ACK}, << >>)

(* The step handled a packet with payload that lies ahead of local_ack     *)
(* (with or without FIN) and that does not fit the reorder budget, by the  *)
(* stack's own count or by the bytes actually stored.                      *)
OverBudgetSegment(c) ==
    /\ last'.op = "process_incoming_packet"
    /\ last'.packet.conn_id = c
    /\ c \in DOMAIN tcp_connections
    /\ Tcb(c).state = "Established"
    /\ ~last'.packet.rst
    /\ last'.packet.payload # << >>
    /\ as_i32(wrapping_sub(last'.packet.sequence_number, Tcb(c).local_ack)) > 0
    /\ \/ Tcb(c).reorder_buffer_bytes + Len(last'.packet.payload)
             > Tcb(c).max_reorder_buffer_bytes
       \/ SumLen(Tcb(c).reorder_buffer) + Len(last'.packet.payload)
             > Tcb(c).max_reorder_buffer_bytes

(* C10: the bytes held in a reorder buffer never exceed                    *)
(* max_reorder_buffer_bytes; an out-of-order segment that would exceed the *)
(* budget is not stored, leaves the buffer unchanged and is answered with  *)
(* exactly one ACK carrying the current local_ack.                         *)
C10_ReorderBudget ==
    [][ \A c \in DOMAIN tcp_connections' :
          /\ SumLen(tcp_connections'[c].reorder_buffer)
                <= tcp_connections'[c].max_reorder_buffer_bytes
          /\ OverBudgetSegment(c) =>
                /\ tcp_connections'[c].reorder_buffer = Tcb(c).reorder_buffer
                /\ tcp_connections'[c].reorder_buffer_bytes = Tcb(c).reorder_buffer_bytes
                /\ tcp_connections'[c].local_ack = Tcb(c).local_ack
                /\ outgoing_packets' = Append(outgoing_packets,
                       PlainAck(c, Tcb(c).local_seq, Tcb(c).local_ack))
                /\ chan' = chan ]_vars

(* C10 witness: the last packet was an out-of-order data segment that was  *)
(* dropped (answered with a plain ACK) while the buffer held other         *)
(* segments.                                                               *)
C10_Witness ==
    /\ LastPacket
    /\ last.action = "SendAck"
    /\ last.packet.payload # << >>
    /\ \E c \in DOMAIN tcp_connections :
         /\ c = last.packet.conn_id
         /\ Tcb(c).state = "Established"
         /\ as_i32(wrapping_sub(last.packet.sequence_number, Tcb(c).local_ack)) > 0
         /\ Tcb(c).reorder_buffer # {}

(* C1: with several threads handling packets of one connection at once,    *)
(* the chunks placed on its receive channel are still in sequence order,   *)
(* none duplicated, none skipped: the i-th byte on the channel is byte     *)
(* i-1 of the peer's stream.                                               *)
C1_ConcurrentInOrder ==
    \A c \in DOMAIN chan :
        \A i \in 1 .. Len(Delivered(c)) : Delivered(c)[i] = i - 1

(* C3: once every segment of the peer's stream has been handled at least   *)
(* once while the connection was Established, every payload byte has been  *)
(* delivered on the receive channel.                                       *)
C3_AllHandledAllDelivered ==
    \A c \in DOMAIN chan :
        handled = env.segs => Delivered(c) = Bytes(0, StreamLen)

(* C7: snd_una <= local_seq in modular (signed 32-bit difference) terms    *)
C7_SndUnaLeLocalSeq ==
    \A c \in DOMAIN tcp_connections :
        as_i32(wrapping_sub(Tcb(c).local_seq, Tcb(c).snd_una)) >= 0

(* C8: while a TCB is Established or CloseWait, every segment of its       *)
(* retransmit queue has its sequence number in [snd_una, local_seq).       *)
C8_RetransmitQueueInWindow ==
    \A c \in DOMAIN tcp_connections :
        Tcb(c).state \in {"Established", "CloseWait"} =>
            \A i \in 1 .. Len(Tcb(c).retransmit_queue) :
                LET seq == Tcb(c).retransmit_queue[i].seq
                IN /\ as_i32(wrapping_sub(seq, Tcb(c).snd_una)) >= 0
                   /\ as_i32(wrapping_sub(Tcb(c).local_seq, seq)) > 0

(* The buffered payloads that continue the byte sequence from `start`, in  *)
(* sequence order (modulo 2^SeqBits).                                      *)
RECURSIVE Chain(_, _)
Chain(buf, start) ==
    IF \E e \in buf : e.key = start
    THEN LET e == CHOOSE x \in buf : x.key = start
         IN << e.data >> \o Chain(buf \ {e}, wrapping_add(start, Len(e.data)))
    ELSE << >>

Eof(src) == [bytes |-> << >>, src |-> src]

DataChunks(segments) == [i \in 1 .. Len(segments) |-> [bytes |-> segments[i], src |-> "data"]]

(* The step handled, in Established, a FIN whose sequence number is ahead  *)
(* of local_ack.                                                           *)
PrematureFin(c) ==
    /\ last'.op = "process_incoming_packet"
    /\ last'.packet.conn_id = c
    /\ c \in DOMAIN tcp_connections
    /\ Tcb(c).state = "Established"
    /\ last'.packet.fin /\ ~last'.packet.rst
    /\ as_i32(wrapping_sub(last'.packet.sequence_number, Tcb(c).local_ack)) > 0

(* The step handled, with a FIN pending, the in-order data segment after   *)
(* which the received data is contiguous up to the pending FIN.            *)
GapClosed(c) ==
    /\ last'.op = "process_incoming_packet"
    /\ last'.packet.conn_id = c
    /\ c \in DOMAIN tcp_connections
    /\ Tcb(c).state = "Established"
    /\ Tcb(c).pending_fin_seq # None
    /\ ~last'.packet.fin /\ ~last'.packet.rst
    /\ last'.packet.payload # << >>
    /\ last'.packet.sequence_number = Tcb(c).local_ack
    /\ LET pkt_end == wrapping_add(last'.packet.sequence_number, Len(last'.packet.payload))
       IN wrapping_add(pkt_end, Len(Concat(Chain(Tcb(c).reorder_buffer, pkt_end))))
             = Tcb(c).pending_fin_seq[1]

(* C4: a FIN ahead of local_ack leaves the state unchanged and is recorded *)
(* as pending; the packet that closes the gap moves the connection to      *)
(* CloseWait in its own handling, with local_ack = FIN sequence + 1, the   *)
(* collected payloads delivered first, the EOF chunk after them, and one   *)
(* ACK covering data and FIN emitted.                                      *)
C4_PendingFin ==
    [][ \A c \in DOMAIN tcp_connections :
          /\ PrematureFin(c) =>
                /\ tcp_connections'[c].state = "Established"
                /\ tcp_connections'[c].pending_fin_seq =
                     Some(wrapping_add(last'.packet.sequence_number,
                                       Len(last'.packet.payload)))
          /\ GapClosed(c) =>
                LET fin_seq == Tcb(c).pending_fin_seq[1]
                    pkt_end == wrapping_add(last'.packet.sequence_number,
                                            Len(last'.packet.payload))
                    payloads == << last'.packet.payload >>
                                   \o Chain(Tcb(c).reorder_buffer, pkt_end)
                IN /\ tcp_connections'[c].state = "CloseWait"
                   /\ tcp_connections'[c].local_ack = wrapping_add(fin_seq, 1)
                   /\ chan'[c] = chan[c] \o DataChunks(payloads) \o << Eof("fin") >>
                   /\ outgoing_packets' = Append(outgoing_packets,
                          PlainAck(c, Tcb(c).local_seq, wrapping_add(fin_seq, 1))) ]_vars

(* The application sends, closes and removes connections, with IDs the     *)
(* table holds and IDs it does not, between the packets of the peer, who   *)
(* sends no data: a bare FIN, an RST or an ACK.                            *)
InitApi ==
    /\ \E seq \in IsnCounters : InitStackAt(seq)
    /\ env = [Env(1, {}, {0}, {"fin", "rst", "ack"}, "all", MaxPkts - 1)
                 EXCEPT !.len = 0]

NextApi ==
    \/ Next
    \/ \E c \in ConnIds : \E n \in 1 .. MaxSendLen : TcpSend(c, n)
    \/ \E c \in ConnIds : TcpClose(c)
    \/ \E c \in DOMAIN tcp_connections : RemoveTcpConnection(c)

SpecApi == InitApi /\ [][NextApi]_vars

(* Two connections send while time passes in steps of the longest RTO and  *)
(* the retransmission timer is polled; the peer acknowledges, closes or    *)
(* resets.                                                                 *)
InitRetransmit ==
    /\ InitStack
    /\ env = [Env(1, {}, {0}, {"ack", "fin", "rst"}, "all", MaxPkts - 1)
                 EXCEPT !.len = 0, !.max_conns = MaxConns, !.max_sends = MaxSends - 1,
                        !.max_ticks = MaxRetransmits + 1,
                        !.tick_sizes = {MaxRtoMs}]

SpecRetransmit == InitRetransmit /\ [][NextSend]_vars

(* The time steps that reach each staleness threshold, and a short one *)
SweepTicks ==
    {TickMs} \cup { 1000 * secs : secs \in {StaleTimeWaitSecs, StaleClosedSecs,
                       StaleSynSentSecs, StaleHalfClosedSecs, StaleEstablishedSecs} }

(* Two connections go through their states while time passes and the       *)
(* stale-connection sweep is called.                                       *)
InitSweep ==
    /\ InitStack
    /\ env = [Env(1, {}, {0}, {"ack", "fin", "rst"}, "all", MaxPkts - 2)
                 EXCEPT !.len = 0, !.max_conns = MaxConns + 1,
                        !.max_ticks = MaxTicks + 1, !.tick_sizes = SweepTicks]

NextSweep ==
    \/ Next
    \/ \E c \in DOMAIN tcp_connections : TcpClose(c)
    \/ CleanupStaleConnections
    \/ Tick

SpecSweep == InitSweep /\ [][NextSweep]_vars

(* One connection sends; time passes without end while the peer sends     *)
(* acknowledgments, as many as it likes, and the caller keeps polling the  *)
(* retransmission timer and the stale-connection sweep.                    *)
InitLive ==
    /\ InitStack
    /\ env = [Env(1, {}, {}, {"ack"}, "honest", Unbounded)
                 EXCEPT !.max_sends = MaxSends - 1, !.max_ticks = Unbounded,
                        !.tick_sizes = {AgeCap}]

NextLive ==
    \/ Next
    \/ \E c \in DOMAIN tcp_connections : \E n \in 1 .. MaxSendLen : TcpSend(c, n)
    \/ CheckRetransmissions
    \/ CleanupStaleConnections
    \/ Elapse

(* The caller's loop: time advances and the sweep is called again and again *)
SpecLive ==
    /\ InitLive /\ [][NextLive]_vars
    /\ WF_vars(Elapse) /\ WF_vars(CleanupStaleConnections)

(* A caller thread waits for state changes, again and again, while one    *)
(* connection is opened, receives data, FIN or RST, loses its receiver and *)
(* is closed.                                                              *)
InitWait ==
    /\ InitStack
    /\ env = [Env(1, {[off |-> 0, len |-> Mss]}, {0, Mss}, {"data", "fin", "rst"}, "all",
                  MaxPkts - 1) EXCEPT !.len = Mss, !.max_ticks = MaxTicks + 1]

NextWait ==
    \/ Next
    \/ \E c \in DOMAIN tcp_connections : TcpClose(c)
    \/ \E c \in DOMAIN tcp_connections : DropReceiver(c)
    \/ \E w \in Waiters : \E timeout \in WaitTimeouts : WaitForStateChange(w, timeout)
    \/ \E w \in Waiters : WaitTimedOut(w)
    \/ Tick

SpecWait == InitWait /\ [][NextWait]_vars

(* The handshake with a peer that answers the SYN with any sequence and    *)
(* acknowledgment number, from either value of the ISN counter.            *)
InitHandshake ==
    /\ \E seq \in IsnCounters : InitStackAt(seq)
    /\ env = [Env(1, {}, {0}, {"synack_any", "ack"}, "all", MaxPkts - 2)
                 EXCEPT !.len = 0]

SpecHandshake == InitHandshake /\ [][Next]_vars

(* Packets arrive for 4-tuples that are not in the connection table: no   *)
(* connection was opened with them, or it has been removed.                *)
InitOrphan ==
    /\ InitStack
    /\ env = [Env(1, {}, {0}, {"ack"}, "all", MaxPkts - 2) EXCEPT !.len = 0]

NextOrphan ==
    \/ Next
    \/ \E c \in DOMAIN tcp_connections : RemoveTcpConnection(c)
    \/ \E c \in ConnIds \ DOMAIN tcp_connections :
          \E h \in OrphanPackets(c) : ProcessIncomingPacket(h)

SpecOrphan == InitOrphan /\ [][NextOrphan]_vars

(* The caller drains the outbound queue while packet-handling threads     *)
(* emit.                                                                   *)
NextTake ==
    \/ NextConc
    \/ TakeOutgoingPackets

SpecTake == InitConc /\ [][NextTake]_vars

(* The values of the port counter: as new leaves it, and, after earlier    *)
(* connections have advanced it, at the last port of the range.            *)
PortCounters == {FirstPort, PortLimit - 1}

(* The connection tables the port counter may find: empty (every earlier   *)
(* connection has been removed), or holding the first connection the stack *)
(* opened, which the peer has not answered yet.                            *)
OldConnId == [local_addr |-> LocalIpv4, local_port |-> FirstPort,
              remote_addr |-> "10.0.0.5", remote_port |-> 80]

OldTables ==
    {EmptyMap, MapPut(EmptyMap, OldConnId, TcpControlBlock(1000000 % SeqMod, 0))}

(* The stack after earlier tcp_connect calls: the port counter has         *)
(* advanced, the connections opened since the first one have been removed  *)
(* and the outbound queue has been taken.                                  *)
InitPorts ==
    /\ \E table \in OldTables :
          /\ tcp_connections = table
          /\ chan = [c \in DOMAIN table |-> << >>]
          /\ next_local_port \in
                (IF table = EmptyMap THEN PortCounters ELSE PortCounters \ {FirstPort})
    /\ next_seq = (1000000 + 1) % SeqMod
    /\ outgoing_packets = << >>
    /\ notify_count = 0
    /\ rx_dropped = {}
    /\ threads = [t \in Threads |-> Idle]
    /\ now = 0
    /\ handled = {}
    /\ waiters = [w \in Waiters |-> NotWaiting]
    /\ locking = [t \in Threads |-> NoCall]
    /\ last = [op |-> "new"]
    /\ env = [Env(1, {[off |-> 0, len |-> Mss]}, {Mss}, {"data", "fin"}, "all", MaxPkts - 1)
                 EXCEPT !.len = Mss, !.max_conns = MaxConns + 2]

SpecPorts == InitPorts /\ [][Next]_vars

(* The application may drop the receive half of a connection's channel at *)
(* any time.                                                               *)
NextDrop ==
    \/ Next
    \/ \E c \in DOMAIN tcp_connections : DropReceiver(c)

SpecDrop == Init /\ [][NextDrop]_vars

(* Threads handle packets of a connection and packets for 4-tuples that   *)
(* are not in the connection table.                                        *)
InitConcOrphan ==
    /\ InitStack
    /\ env = [Env(1, {[off |-> 0, len |-> Mss]}, {Mss}, {"data", "fin"}, "all", MaxPkts - 2)
                 EXCEPT !.len = Mss]

NextConcOrphan ==
    \/ NextConc
    \/ \E t \in Threads : \E c \in ConnIds \ DOMAIN tcp_connections :
          \E h \in OrphanPackets(c) : ProcessLocked(t, h)

SpecConcOrphan == InitConcOrphan /\ [][NextConcOrphan]_vars

(* The application sends, closes any connection ID any number of times,   *)
(* drops receivers and removes connections, while the peer sends data and  *)
(* FIN, acknowledging all, some or none of what it was sent.               *)
InitCloseTwice ==
    /\ InitStack
    /\ env = [Env(1, {[off |-> 0, len |-> Mss]}, {0, Mss}, {"data", "fin"}, "honest",
                  MaxPkts - 1) EXCEPT !.len = Mss, !.max_sends = MaxSends - 1]

NextCloseTwice ==
    \/ Next
    \/ \E c \in DOMAIN tcp_connections : \E n \in 1 .. MaxSendLen : TcpSend(c, n)
    \/ \E c \in ConnIds : TcpClose(c)
    \/ \E c \in DOMAIN tcp_connections : RemoveTcpConnection(c)
    \/ \E c \in DOMAIN tcp_connections : DropReceiver(c)

SpecCloseTwice == InitCloseTwice /\ [][NextCloseTwice]_vars

(* The peer's stream is Mss + 1 bytes long, cut into segments at any byte  *)
(* boundary; its FIN travels alone or with the last bytes of the stream.   *)
InitShort ==
    /\ InitStack
    /\ \E irs \in PeerIsns :
         env = [Env(irs, { sg \in AllSegs : sg.off + sg.len <= Mss + 1 }, 1 .. Mss + 1,
                    {"data", "fin"}, "all", MaxPkts) EXCEPT !.len = Mss + 1]

SpecShort == InitShort /\ [][Next]_vars

----------------------------------------------------------------------------
(* The step appended a packet with the FIN flag for connection c *)
FinEmitted(c) ==
    \E i \in Len(outgoing_packets) + 1 .. Len(outgoing_packets') :
        /\ outgoing_packets'[i].conn_id = c
        /\ FIN \in outgoing_packets'[i].flags

InState(c, states) == c \in DOMAIN tcp_connections /\ tcp_connections[c].state \in states

(* A FIN goes out only from tcp_close in Established or CloseWait *)
FinOnlyByClose(c) ==
    FinEmitted(c) => /\ last'.op = "tcp_close" /\ last'.conn_id = c
                     /\ InState(c, {"Established", "CloseWait"})

(* tcp_send in CloseWait succeeds *)
SendInCloseWait(c) ==
    (InState(c, {"CloseWait"}) /\ last'.op = "tcp_send" /\ last'.conn_id = c)
        => last'.result = "Ok"

StaysCloseWait(c) == c \in DOMAIN tcp_connections' /\ tcp_connections'[c].state = "CloseWait"

ClosedByTcpClose(c) ==
    /\ last'.op = "tcp_close" /\ last'.conn_id = c
    /\ c \in DOMAIN tcp_connections' /\ tcp_connections'[c].state = "LastAck"

ClosedByReset(c) ==
    /\ last'.op = "process_tcp_packet" /\ last'.packet.conn_id = c /\ last'.packet.rst
    /\ c \in DOMAIN tcp_connections' /\ tcp_connections'[c].state = "Closed"

ClosedByFailedDelivery(c) ==
    /\ last'.op = "execute_action" /\ last'.conn_id = c /\ last'.step = "send"
    /\ c \in rx_dropped
    /\ c \in DOMAIN tcp_connections' /\ tcp_connections'[c].state = "Closed"

Removed(c) ==
    /\ last'.op = "remove_tcp_connection" /\ last'.conn_id = c
    /\ c \notin DOMAIN tcp_connections'

(* C6 as stated: handling the peer's FIN emits no FIN of ours; a packet    *)
(* with the FIN flag is emitted only by tcp_close called in Established or *)
(* CloseWait; a connection in CloseWait stays in CloseWait, where tcp_send *)
(* succeeds, until tcp_close is called.                                    *)
C6_HalfClose ==
    [][ \A c \in ConnIds :
          /\ FinOnlyByClose(c)
          /\ SendInCloseWait(c)
          /\ InState(c, {"CloseWait"}) => StaysCloseWait(c) \/ ClosedByTcpClose(c) ]_vars

(* C6 amended: as C6, but a connection in CloseWait also leaves that state *)
(* when an RST is handled (Closed), when a delivery decided earlier fails  *)
(* because the Receiver was dropped (Closed), or when it is removed from   *)
(* the connection table.                                                   *)
C6_HalfCloseUntilCloseResetOrRemoval ==
    [][ \A c \in ConnIds :
          /\ FinOnlyByClose(c)
          /\ SendInCloseWait(c)
          /\ InState(c, {"CloseWait"}) =>
                \/ StaysCloseWait(c) \/ ClosedByTcpClose(c)
                \/ ClosedByReset(c) \/ ClosedByFailedDelivery(c) \/ Removed(c) ]_vars

(* The peer's FIN was handled and its EOF chunk delivered, no FIN of ours  *)
(* went out, and a tcp_send in CloseWait has just succeeded.               *)
C6_Witness ==
    \E c \in DOMAIN tcp_connections :
        /\ tcp_connections[c].state = "CloseWait"
        /\ last.op = "tcp_send" /\ last.conn_id = c /\ last.result = "Ok"
        /\ \E i \in 1 .. Len(chan[c]) : chan[c][i].src = "fin"
        /\ \A i \in 1 .. Len(outgoing_packets) : FIN \notin outgoing_packets[i].flags

----------------------------------------------------------------------------
(* C11: after a packet has been handled no key of the reorder buffer       *)
(* equals local_ack.                                                       *)
C11_NoKeyAtLocalAck ==
    \A c \in DOMAIN tcp_connections :
        \A e \in Tcb(c).reorder_buffer : e.key # Tcb(c).local_ack

(* C12: pending_fin_seq, when set, is strictly greater than local_ack in   *)
(* modular order.                                                          *)
C12_PendingFinAhead ==
    \A c \in DOMAIN tcp_connections :
        Tcb(c).pending_fin_seq # None =>
            as_i32(wrapping_sub(Tcb(c).pending_fin_seq[1], Tcb(c).local_ack)) > 0

----------------------------------------------------------------------------
(* What a step appended to outgoing_packets *)
Emitted == SubSeq(outgoing_packets', Len(outgoing_packets) + 1, Len(outgoing_packets'))

(* C13: tcp_send returns NotConnected exactly when the connection ID is    *)
(* not in the table or the state is neither Established nor CloseWait, and *)
(* then no TCB changes and no packet is pushed onto outgoing_packets.      *)
C13_SendNotConnected ==
    [][ last'.op = "tcp_send" =>
          /\ last'.result = "NotConnected" <=>
                ~InState(last'.conn_id, {"Established", "CloseWait"})
          /\ last'.result = "NotConnected" =>
                /\ tcp_connections' = tcp_connections
                /\ outgoing_packets' = outgoing_packets ]_vars

(* C13 witness: tcp_send has just failed on a connection of the table that *)
(* is not in a sendable state.                                             *)
C13_Witness ==
    /\ last.op = "tcp_send" /\ last.result = "NotConnected"
    /\ last.conn_id \in DOMAIN tcp_connections
    /\ Tcb(last.conn_id).state \notin {"Established", "CloseWait"}

(* C14: a successful tcp_send of n bytes emits ceil(n / Mss) packets of at *)
(* most Mss payload bytes each, with contiguous sequence numbers starting  *)
(* at the previous local_seq and payloads that concatenate to the input;   *)
(* all carry ACK and only the last carries PSH; the same segments are      *)
(* appended in order to the retransmit queue with retransmit_count 0; and  *)
(* local_seq advances by n modulo the size of the sequence space.          *)
C14_SendSegments ==
    [][ (last'.op = "tcp_send" /\ last'.result = "Ok") =>
          LET c == last'.conn_id
              n == last'.len
              old == tcp_connections[c]
              new == tcp_connections'[c]
              pk == Emitted
              k == Len(pk)
              q0 == Len(old.retransmit_queue)
          IN /\ k = (n + Mss - 1) \div Mss
             /\ k >= 1 /\ pk[1].seq = old.local_seq
             /\ \A i \in 1 .. k :
                   /\ pk[i].conn_id = c
                   /\ Len(pk[i].payload) <= Mss
                   /\ i < k => pk[i + 1].seq = wrapping_add(pk[i].seq, Len(pk[i].payload))
                   /\ ACK \in pk[i].flags
                   /\ PSH \in pk[i].flags <=> i = k
                   /\ pk[i].flags \subseteq {ACK, PSH}
             /\ Concat([i \in 1 .. k |-> pk[i].payload]) = Bytes(0, n)
             /\ Len(new.retransmit_queue) = q0 + k
             /\ SubSeq(new.retransmit_queue, 1, q0) = old.retransmit_queue
             /\ \A i \in 1 .. k :
                   LET seg == new.retransmit_queue[q0 + i]
                   IN /\ seg.seq = pk[i].seq /\ seg.data = pk[i].payload
                      /\ seg.flags = pk[i].flags /\ seg.retransmit_count = 0
             /\ new.local_seq = wrapping_add(old.local_seq, n) ]_vars

(* C14 witness: a second tcp_send, of more than Mss bytes, has succeeded   *)
(* and its segments follow those of the first in the retransmit queue;     *)
(* local_seq has wrapped past the end of the sequence space.               *)
C14_Witness ==
    /\ last.op = "tcp_send" /\ last.result = "Ok" /\ last.len > Mss
    /\ env.nsends = 2
    /\ Len(Tcb(last.conn_id).retransmit_queue) >= 3
    /\ Tcb(last.conn_id).local_seq < Tcb(last.conn_id).initial_seq

----------------------------------------------------------------------------
(* The packets a step emitted for connection c *)
EmittedFor(c) == SelectSeq(Emitted, LAMBDA pk : pk.conn_id = c)

(* The head of c's retransmit queue has reached the retransmit limit *)
Exhausted(c) ==
    /\ c \in DOMAIN tcp_connections
    /\ Tcb(c).retransmit_queue # << >>
    /\ Head(Tcb(c).retransmit_queue).retransmit_count >= MaxRetransmits

(* C15: one call of check_retransmissions emits at most one packet per     *)
(* connection and only for connections in Established or CloseWait; the    *)
(* packet is the head of the retransmit queue with its stored sequence     *)
(* number, flags and payload and the current local_ack, sent only if       *)
(* now - sent_at >= rto and its retransmit_count is below the limit; a     *)
(* head that has reached the limit is not emitted and stays in the queue;  *)
(* the return value is the number of packets emitted.                      *)
C15_RetransmitHeadOnly ==
    [][ last'.op = "check_retransmissions" =>
          /\ last'.count = Len(Emitted)
          /\ \A c \in ConnIds :
                /\ Len(EmittedFor(c)) <= 1
                /\ EmittedFor(c) # << >> =>
                      /\ InState(c, {"Established", "CloseWait"})
                      /\ Tcb(c).retransmit_queue # << >>
                      /\ LET seg == Head(Tcb(c).retransmit_queue)
                         IN /\ now - seg.sent_at >= Tcb(c).rto
                            /\ seg.retransmit_count < MaxRetransmits
                            /\ EmittedFor(c)[1] =
                                  send_tcp_packet(c, seg.seq, Tcb(c).local_ack,
                                                  seg.flags, seg.data)
                /\ Exhausted(c) =>
                      /\ EmittedFor(c) = << >>
                      /\ tcp_connections'[c].retransmit_queue = Tcb(c).retransmit_queue
      ]_vars

(* The step handled a packet of connection c that advanced snd_una *)
AckAdvanced(c) ==
    /\ last'.op = "process_incoming_packet" /\ last'.packet.conn_id = c
    /\ c \in DOMAIN tcp_connections /\ c \in DOMAIN tcp_connections'
    /\ tcp_connections'[c].snd_una # Tcb(c).snd_una

(* The step retransmitted the head segment of connection c *)
Retransmitted(c) == last'.op = "check_retransmissions" /\ EmittedFor(c) # << >>

RtoValues == {RtoInitialMs, 2 * RtoInitialMs, 4 * RtoInitialMs, 8 * RtoInitialMs, MaxRtoMs}

(* C16: rto starts at 500 ms, is set to min(2 * rto, 8 s) by each          *)
(* retransmission and by nothing else, and is reset to 500 ms by every     *)
(* inbound ACK that advances snd_una; it is always one of 500, 1000, 2000, *)
(* 4000, 8000 ms.                                                          *)
C16_RtoBackoff ==
    /\ [](\A c \in DOMAIN tcp_connections : Tcb(c).rto \in RtoValues)
    /\ [][ \A c \in DOMAIN tcp_connections' :
            IF c \notin DOMAIN tcp_connections
            THEN tcp_connections'[c].rto = RtoInitialMs
            ELSE /\ Retransmitted(c) =>
                      tcp_connections'[c].rto =
                         (IF 2 * Tcb(c).rto < MaxRtoMs THEN 2 * Tcb(c).rto ELSE MaxRtoMs)
                 /\ AckAdvanced(c) => tcp_connections'[c].rto = RtoInitialMs
                 /\ tcp_connections'[c].rto # Tcb(c).rto =>
                      Retransmitted(c) \/ AckAdvanced(c) ]_vars

(* C16 witness: the doubling has been capped (rto is at its maximum after  *)
(* a fifth retransmission of the same segment).                            *)
C16_Witness ==
    \E c \in DOMAIN tcp_connections :
        /\ Tcb(c).rto = MaxRtoMs
        /\ Tcb(c).retransmit_queue # << >>
        /\ Head(Tcb(c).retransmit_queue).retransmit_count = 5

----------------------------------------------------------------------------
(* The age of a TCB in milliseconds, as the sweep measures it *)
AgeMs(tcb) == now - (IF tcb.state = "SynSent" THEN tcb.created_at ELSE tcb.last_activity)

(* The thresholds of the claim, in seconds *)
ThresholdSecs(state) ==
    CASE state = "SynSent" -> 30
      [] state = "Established" -> 600
      [] state \in {"FinWait1", "FinWait2", "CloseWait", "LastAck"} -> 120
      [] state = "TimeWait" -> 60
      [] state = "Closed" -> 5

(* A sweep removes the TCBs that satisfy Old, leaves the others untouched  *)
(* and returns the number removed.                                         *)
SweepRemoves(Old(_)) ==
    last'.op = "cleanup_stale_connections" =>
        /\ DOMAIN tcp_connections' = { c \in DOMAIN tcp_connections : ~Old(Tcb(c)) }
        /\ \A c \in DOMAIN tcp_connections' : tcp_connections'[c] = Tcb(c)
        /\ last'.count = Cardinality(DOMAIN tcp_connections \ DOMAIN tcp_connections')

OlderThanThreshold(tcb) == AgeMs(tcb) > 1000 * ThresholdSecs(tcb.state)

WholeSecondsOverThreshold(tcb) == AgeMs(tcb) >= 1000 * (ThresholdSecs(tcb.state) + 1)

(* C18 as stated: cleanup_stale_connections removes exactly the TCBs whose *)
(* age exceeds the threshold of their state, leaves every other TCB        *)
(* untouched and returns the number removed.                               *)
C18_SweepExact == [][ SweepRemoves(OlderThanThreshold) ]_vars

(* C18 amended: the age is compared in whole seconds, so a TCB is removed  *)
(* exactly when its age is at least one full second over the threshold.    *)
C18_SweepWholeSeconds == [][ SweepRemoves(WholeSecondsOverThreshold) ]_vars

(* C18 witness: a sweep has just removed one connection and kept another   *)
C18_Witness ==
    /\ last.op = "cleanup_stale_connections" /\ last.count = 1
    /\ DOMAIN tcp_connections # {}

----------------------------------------------------------------------------
(* A step that refreshes last_activity of connection c: a tcp_send or an   *)
(* inbound packet of that connection.                                      *)
Refresh(c) ==
    \/ last'.op = "tcp_send" /\ last'.conn_id = c
    \/ last'.op = "process_incoming_packet" /\ last'.packet.conn_id = c

(* C17 as stated: a connection whose head retransmit segment has reached   *)
(* the retransmit limit is eventually removed from the connection table    *)
(* (or its segment is acknowledged or dropped first), given that time      *)
(* advances and the sweep keeps being called.                              *)
C17_ExhaustedReaped ==
    \A c \in ConnIds : Exhausted(c) ~> ~Exhausted(c)

(* What the code does give: the connection is removed once no tcp_send    *)
(* and no inbound packet refreshes its last_activity any more.             *)
ExhaustedReapedWhenQuiet ==
    \A c \in ConnIds :
        <>[][~Refresh(c)]_vars => (Exhausted(c) ~> ~Exhausted(c))

----------------------------------------------------------------------------
(* The state of the TCB of connection c changes in this step *)
Transition(c) ==
    /\ c \in DOMAIN tcp_connections /\ c \in DOMAIN tcp_connections'
    /\ tcp_connections'[c].state # tcp_connections[c].state

(* C19: every transition of a TCB's state, by the handling of an inbound   *)
(* packet, by tcp_close or by a disconnected channel, wakes the threads    *)
(* blocked in wait_for_state_change, which return true (so that a call     *)
(* returns false only if no TCB made a transition while it waited).        *)
C19_TransitionWakes ==
    [][ (\E c \in ConnIds : Transition(c))
          => \A w \in Waiters :
                waiters[w].st = "waiting" => waiters'[w].st = "notified" ]_vars

(* C20: once the peer's SYN+ACK has been handled, is_tcp_established       *)
(* returns true, and no call of wait_for_state_change, whether it started  *)
(* before or after the SYN+ACK was handled, times out on the established   *)
(* connection: it returns true.                                            *)
C20_EstablishedNotified ==
    /\ [](last.op = "process_incoming_packet" /\ last.action = "ConnectionEstablished"
            => is_tcp_established(last.packet.conn_id))
    /\ [][ \A w \in Waiters :
              waiters[w].st = "waiting" /\ waiters'[w].st = "timed_out"
                 => ~ \E c \in ConnIds : is_tcp_established(c) ]_vars

(* The first half of C20 alone: the SYN+ACK leaves the connection          *)
(* Established.                                                            *)
EstablishedAfterSynAck ==
    last.op = "process_incoming_packet" /\ last.action = "ConnectionEstablished"
       => is_tcp_established(last.packet.conn_id)

(* A wait that is in progress when the SYN+ACK is handled returns true *)
WaitingAtSynAckNotified ==
    [][ last'.op = "process_incoming_packet" /\ last'.action = "ConnectionEstablished"
          => \A w \in Waiters :
                waiters[w].st = "waiting" => waiters'[w].st = "notified" ]_vars

----------------------------------------------------------------------------
(* The option block of a SYN: 02 04 05 50 01 03 03 07 *)
SynOptionBlock == << 2, 4, 5, 80, 1, 3, 3, 7 >>

(* tcp_connect has inserted a TCB in SynSent and emitted one SYN *)
ConnectStep ==
    last'.op = "tcp_connect" =>
       LET c == last'.conn_id
       IN /\ c \in DOMAIN tcp_connections'
          /\ tcp_connections'[c].state = "SynSent"
          /\ Len(Emitted) = 1
          /\ Emitted[1].conn_id = c
          /\ Emitted[1].flags = {SYN}
          /\ Emitted[1].seq = tcp_connections'[c].initial_seq
          /\ Emitted[1].seq = next_seq
          /\ Emitted[1].ack = 0
          /\ Emitted[1].options = SynOptionBlock
          /\ Emitted[1].payload = << >>

(* A SYN+ACK handled in SynSent has established the connection and        *)
(* emitted one ACK                                                         *)
SynAckStep ==
    \A c \in ConnIds :
       /\ InState(c, {"SynSent"})
       /\ last'.op = "process_incoming_packet" /\ last'.packet.conn_id = c
       /\ last'.packet.syn /\ last'.packet.ack
       => LET h == last'.packet
              tcb == tcp_connections'[c]
          IN /\ tcb.local_ack = (h.sequence_number + 1) % SeqMod
             /\ tcb.local_seq = h.acknowledgment_number
             /\ tcb.snd_una = h.acknowledgment_number
             /\ tcb.state = "Established"
             /\ Len(Emitted) = 1
             /\ Emitted[1].conn_id = c
             /\ Emitted[1].flags = {ACK}
             /\ Emitted[1].seq = h.acknowledgment_number
             /\ Emitted[1].ack = (h.sequence_number + 1) % SeqMod
             /\ Emitted[1].payload = << >>

(* C21: tcp_connect inserts a TCB in SynSent and emits exactly one SYN     *)
(* with seq = ISN, ack = 0 and the option block 02 04 05 50 01 03 03 07;   *)
(* a SYN+ACK with sequence s and acknowledgment a handled in SynSent sets  *)
(* local_ack = s + 1 and local_seq = snd_una = a, moves the state to       *)
(* Established and emits exactly one ACK with seq = a and ack = s + 1.     *)
C21_Handshake == [][ ConnectStep /\ SynAckStep ]_vars

(* C21 witness: a SYN+ACK whose sequence number is the last of the         *)
(* sequence space has been handled: local_ack has wrapped to 0, and the    *)
(* SYN and the ACK are the two packets sent.                               *)
C21_Witness ==
    /\ last.op = "process_incoming_packet" /\ last.action = "ConnectionEstablished"
    /\ last.packet.sequence_number = SeqMod - 1
    /\ Tcb(last.packet.conn_id).local_ack = 0
    /\ Len(outgoing_packets) = 2
    /\ outgoing_packets[1].flags = {SYN} /\ outgoing_packets[2].flags = {ACK}

----------------------------------------------------------------------------
(* The packet handled in this step is for a 4-tuple not in the table *)
OrphanStep ==
    /\ last'.op = "process_incoming_packet"
    /\ last'.packet.conn_id \notin DOMAIN tcp_connections

(* C22: a packet for a 4-tuple that is not in the connection table         *)
(* provokes exactly one outbound RST when it does not carry RST itself,    *)
(* and nothing when it does: RST with seq = incoming ack and ack = 0 if    *)
(* the packet has ACK, otherwise RST+ACK with seq = 0 and ack = incoming   *)
(* seq + payload length + (1 if SYN or FIN); the connection table is       *)
(* unchanged and nothing is delivered to any channel.                      *)
C22_OrphanReset ==
    [][ OrphanStep =>
          LET h == last'.packet
          IN /\ tcp_connections' = tcp_connections
             /\ chan' = chan
             /\ h.rst => Emitted = << >>
             /\ ~h.rst =>
                   /\ Len(Emitted) = 1
                   /\ Emitted[1].conn_id = h.conn_id
                   /\ Emitted[1].payload = << >>
                   /\ h.ack => /\ Emitted[1].flags = {RST}
                               /\ Emitted[1].seq = h.acknowledgment_number
                               /\ Emitted[1].ack = 0
                   /\ ~h.ack => /\ Emitted[1].flags = {RST, ACK}
                                /\ Emitted[1].seq = 0
                                /\ Emitted[1].ack =
                                      (h.sequence_number + Len(h.payload)
                                         + (IF h.syn \/ h.fin THEN 1 ELSE 0)) % SeqMod
    ]_vars

(* C22 witness: a FIN with payload and no ACK, for a connection that has   *)
(* been removed, was answered by a RST+ACK whose acknowledgment number     *)
(* wrapped round the sequence space.                                       *)
C22_Witness ==
    /\ last.op = "process_incoming_packet"
    /\ last.packet.conn_id \notin DOMAIN tcp_connections
    /\ last.packet.conn_id \in DOMAIN chan
    /\ last.packet.fin /\ ~last.packet.ack /\ ~last.packet.rst
    /\ last.packet.payload # << >>
    /\ outgoing_packets # << >>
    /\ LET pk == outgoing_packets[Len(outgoing_packets)]
       IN /\ pk.flags = {RST, ACK}
          /\ pk.ack < last.packet.sequence_number

----------------------------------------------------------------------------
(* p is a prefix of q *)
IsPrefix(p, q) == Len(p) <= Len(q) /\ SubSeq(q, 1, Len(p)) = p

TakeStep == last'.op = "take_outgoing_packets"

(* C23: take_outgoing_packets swaps the outbound queue for an empty one.   *)
(* A take returns the whole queue in push order and leaves it empty, and   *)
(* every other step only appends to the queue, so every packet pushed is   *)
(* returned by exactly one take, in push order, also while other threads   *)
(* emit; a take that follows a take with nothing emitted in between        *)
(* returns an empty list.                                                  *)
C23_TakeSwaps ==
    [][ /\ TakeStep => /\ last'.packets = outgoing_packets
                       /\ outgoing_packets' = << >>
        /\ ~TakeStep => IsPrefix(outgoing_packets, outgoing_packets')
        /\ TakeStep /\ last.op = "take_outgoing_packets" => last'.packets = << >>
    ]_vars

(* C23 witness: a take has returned packets while a thread still has      *)
(* steps of its action to execute.                                         *)
C23_Witness ==
    /\ last.op = "take_outgoing_packets"
    /\ last.packets # << >>
    /\ \E t \in Threads : threads[t] # Idle /\ Len(threads[t].ops) >= 1

----------------------------------------------------------------------------
ConnectDone == last'.op = "tcp_connect"

(* C24: every local port handed out lies in [49152, 65000): ports increase *)
(* by one per tcp_connect starting at 49152, and the allocation after      *)
(* 64999 yields 49152 again.                                               *)
C24_PortRange ==
    [][ ConnectDone =>
          LET port == last'.conn_id.local_port
          IN /\ port \in FirstPort .. PortLimit - 1
             /\ port = next_local_port
             /\ next_local_port' = IF port = PortLimit - 1 THEN FirstPort ELSE port + 1
    ]_vars

(* C25: tcp_connect never returns the connection ID of a TCB that is still *)
(* in the connection table: each connect adds exactly one entry and leaves *)
(* the TCB and the receive channel of every connection in the table as     *)
(* they are.                                                               *)
C25_FreshConnId ==
    [][ ConnectDone =>
          /\ last'.conn_id \notin DOMAIN tcp_connections
          /\ Cardinality(DOMAIN tcp_connections')
                = Cardinality(DOMAIN tcp_connections) + 1
          /\ \A c \in DOMAIN tcp_connections :
                /\ tcp_connections'[c] = tcp_connections[c]
                /\ chan'[c] = chan[c]
    ]_vars

----------------------------------------------------------------------------
(* The packet handled in this step decided an action of one of the kinds,  *)
(* for a connection whose receiver has been dropped                        *)
FailedDelivery(c, kinds) ==
    /\ last'.op = "process_incoming_packet" /\ last'.packet.conn_id = c
    /\ last'.action \in kinds
    /\ c \in rx_dropped

ClosedNothingDelivered(c) ==
    /\ c \in DOMAIN tcp_connections' /\ tcp_connections'[c].state = "Closed"
    /\ chan'[c] = chan[c]

(* C26: whenever a delivery to the application fails because the receive   *)
(* half of the channel has been dropped, the TCB ends in state Closed and  *)
(* nothing more is delivered, for every action that delivers payloads: a   *)
(* single payload, multiple payloads, payloads followed by EOF.            *)
C26_FailedDeliveryCloses ==
    [][ \A c \in ConnIds :
          FailedDelivery(c, {"SendData", "SendMultipleData", "SendDataThenFinAck"})
             => ClosedNothingDelivered(c) ]_vars

(* What holds of the actions without EOF: single and multiple payloads *)
FailedDataDeliveryCloses ==
    [][ \A c \in ConnIds :
          FailedDelivery(c, {"SendData", "SendMultipleData"})
             => ClosedNothingDelivered(c) ]_vars

----------------------------------------------------------------------------
(* The step is the critical section of process_tcp_packet: from taking the *)
(* connection-table lock to releasing it                                   *)
CriticalSection == last'.op = "process_tcp_packet"

(* C27: process_incoming_packet never sends on a receive channel while it  *)
(* holds the connection-table lock: nothing is placed on a channel in the  *)
(* critical section, every channel send is a step of the action executed   *)
(* after the lock has been released.                                       *)
C27_NoSendUnderLock ==
    [][ /\ CriticalSection => chan' = chan
        /\ \A c \in DOMAIN chan :
              c \in DOMAIN chan' /\ chan'[c] # chan[c]
                 => last'.op = "execute_action" /\ last'.step = "send"
    ]_vars

(* C27 witness: while one thread had a channel send of its action still to *)
(* do, another thread has gone through the critical section.               *)
C27_Witness ==
    /\ last.op = "process_tcp_packet"
    /\ \E t \in Threads :
          /\ t # last.thread
          /\ threads[t] # Idle
          /\ \E i \in 1 .. Len(threads[t].ops) : threads[t].ops[i].op = "send"

----------------------------------------------------------------------------
(* C28: for every inbound packet, process_incoming_packet only decides an  *)
(* action while it holds the connection-table lock and pushes packets onto *)
(* the outbound queue only after the lock has been released: no packet is  *)
(* emitted inside the critical section.                                    *)
C28_NoEmissionUnderLock ==
    [][ CriticalSection => outgoing_packets' = outgoing_packets ]_vars

(* What holds: no packet is emitted inside the critical section when the   *)
(* packet handled belongs to a connection in the table.                    *)
KnownNoEmissionUnderLock ==
    [][ CriticalSection /\ last'.packet.conn_id \in DOMAIN tcp_connections
          => outgoing_packets' = outgoing_packets ]_vars

----------------------------------------------------------------------------
(* The segment of packet h ends at or before local_ack of tcb *)
WhollyBefore(h, tcb) ==
    /\ h.payload # << >> /\ ~h.fin /\ ~h.rst /\ ~h.syn
    /\ as_i32(wrapping_sub(wrapping_add(h.sequence_number, Len(h.payload)),
                           tcb.local_ack)) <= 0

(* The packet handled in this step re-delivers acknowledged data to the    *)
(* Established connection c                                                *)
Redelivery(c) ==
    /\ InState(c, {"Established"})
    /\ last'.op = "process_incoming_packet" /\ last'.packet.conn_id = c
    /\ WhollyBefore(last'.packet, tcp_connections[c])

(* C29: in state Established, re-delivering a data segment that lies       *)
(* entirely before local_ack emits exactly one payload-free ACK carrying   *)
(* the current local_ack, delivers nothing on the receive channel and      *)
(* leaves local_ack and the reorder buffer unchanged.                      *)
C29_RedeliveryPureAck ==
    [][ \A c \in ConnIds :
          Redelivery(c) =>
             /\ Len(Emitted) = 1
             /\ Emitted[1].conn_id = c
             /\ Emitted[1].flags = {ACK}
             /\ Emitted[1].payload = << >>
             /\ Emitted[1].ack = tcp_connections[c].local_ack
             /\ Emitted[1].seq = tcp_connections'[c].local_seq
             /\ chan'[c] = chan[c]
             /\ tcp_connections'[c].local_ack = tcp_connections[c].local_ack
             /\ tcp_connections'[c].reorder_buffer = tcp_connections[c].reorder_buffer
             /\ tcp_connections'[c].reorder_buffer_bytes
                   = tcp_connections[c].reorder_buffer_bytes
    ]_vars

(* C29 witness: a segment delivered earlier has been handled again while   *)
(* later data waits in the reorder buffer.                                 *)
C29_Witness ==
    /\ last.op = "process_incoming_packet" /\ last.action = "SendAck"
    /\ InState(last.packet.conn_id, {"Established"})
    /\ WhollyBefore(last.packet, Tcb(last.packet.conn_id))
    /\ Delivered(last.packet.conn_id) # << >>
    /\ Tcb(last.packet.conn_id).reorder_buffer # {}

----------------------------------------------------------------------------
CloseStep(c) == last'.op = "tcp_close" /\ last'.conn_id = c

(* tcp_close of c has moved it from state from to state to, emitted one    *)
(* FIN+ACK and cleared the retransmit queue                                *)
CloseMoves(c, from, to) ==
    CloseStep(c) /\ InState(c, {from}) =>
       /\ tcp_connections'[c] = [tcp_connections[c] EXCEPT !.state = to,
                                                           !.retransmit_queue = << >>]
       /\ Len(Emitted) = 1
       /\ Emitted[1].conn_id = c
       /\ Emitted[1].flags = {FIN, ACK}
       /\ Emitted[1].seq = tcp_connections[c].local_seq
       /\ Emitted[1].ack = tcp_connections[c].local_ack
       /\ Emitted[1].payload = << >>

ClosingStates == {"Established", "CloseWait"}

(* C30 as stated: tcp_close moves Established to FinWait1 and CloseWait to *)
(* LastAck, emitting one FIN+ACK with seq = local_seq and ack = local_ack  *)
(* and clearing the retransmit queue; in any other state or on an unknown  *)
(* ID it changes no TCB field and emits no packet.                         *)
C30_CloseNoOpElsewhere ==
    [][ \A c \in ConnIds :
          /\ CloseMoves(c, "Established", "FinWait1")
          /\ CloseMoves(c, "CloseWait", "LastAck")
          /\ CloseStep(c) /\ ~InState(c, ClosingStates) =>
                /\ tcp_connections' = tcp_connections
                /\ Emitted = << >>
    ]_vars

(* C30 amended: the same, but in any other state tcp_close clears the      *)
(* retransmit queue of the TCB (and changes no other field); on an unknown *)
(* ID it changes nothing.  A close that follows a close of the same        *)
(* connection changes nothing and emits nothing: closing twice is closing  *)
(* once.                                                                   *)
C30_CloseClearsQueueElsewhere ==
    [][ \A c \in ConnIds :
          /\ CloseMoves(c, "Established", "FinWait1")
          /\ CloseMoves(c, "CloseWait", "LastAck")
          /\ CloseStep(c) /\ ~InState(c, ClosingStates) =>
                /\ Emitted = << >>
                /\ DOMAIN tcp_connections' = DOMAIN tcp_connections
                /\ \A d \in DOMAIN tcp_connections :
                      tcp_connections'[d] =
                         IF d = c THEN [tcp_connections[d] EXCEPT !.retransmit_queue = << >>]
                         ELSE tcp_connections[d]
          /\ CloseStep(c) /\ last.op = "tcp_close" /\ last.conn_id = c =>
                /\ tcp_connections' = tcp_connections
                /\ Emitted = << >>
    ]_vars

(* C30 witness: a connection that was closed by a failed delivery while    *)
(* sent data was unacknowledged has been closed by tcp_close, which        *)
(* emptied its retransmit queue.                                           *)
C30_Witness ==
    /\ last.op = "tcp_close"
    /\ InState(last.conn_id, {"Closed"})
    /\ last.conn_id \in rx_dropped
    /\ Tcb(last.conn_id).snd_una # Tcb(last.conn_id).local_seq
    /\ Tcb(last.conn_id).retransmit_queue = << >>

----------------------------------------------------------------------------
(* The chunks this step has placed on the channel of c *)
NewChunks(c) == SubSeq(chan'[c], Len(chan[c]) + 1, Len(chan'[c]))

(* The payloads among the chunks this step has placed on the channel of c *)
NewPayloads(c) ==
    LET d == SelectSeq(NewChunks(c), LAMBDA ch : ch.src = "data")
    IN [i \in 1 .. Len(d) |-> d[i].bytes]

(* The buffer holds segments on both sides of the wrap of the sequence     *)
(* space: one that follows another in sequence order has the smaller key.  *)
Straddles(buf) ==
    \E e1 \in buf, e2 \in buf :
        e2.key < e1.key /\ as_i32(wrapping_sub(e2.key, e1.key)) > 0

(* The step handled, in Established, a data segment that starts at         *)
(* local_ack                                                               *)
InOrderData(c) ==
    /\ InState(c, {"Established"})
    /\ last'.op = "process_incoming_packet" /\ last'.packet.conn_id = c
    /\ ~last'.packet.fin /\ ~last'.packet.rst /\ ~last'.packet.syn
    /\ last'.packet.payload # << >>
    /\ last'.packet.sequence_number = Tcb(c).local_ack

(* C31: when the buffered out-of-order segments straddle the wrap of the   *)
(* sequence space, an in-order segment still causes every buffered segment *)
(* contiguous with local_ack to be delivered in that same packet handling, *)
(* in sequence-number order.                                               *)
C31_DrainAcrossWrap ==
    [][ \A c \in ConnIds :
          InOrderData(c) /\ Straddles(Tcb(c).reorder_buffer) =>
             LET h == last'.packet
                 pkt_end == wrapping_add(h.sequence_number, Len(h.payload))
             IN NewPayloads(c) = << h.payload >> \o Chain(Tcb(c).reorder_buffer, pkt_end)
    ]_vars

(* Without segments on both sides of the wrap in the buffer, the in-order  *)
(* segment is delivered with every buffered segment contiguous with it     *)
DrainWithoutWrap ==
    [][ \A c \in ConnIds :
          InOrderData(c) /\ ~Straddles(Tcb(c).reorder_buffer) =>
             LET h == last'.packet
                 pkt_end == wrapping_add(h.sequence_number, Len(h.payload))
             IN NewPayloads(c) = << h.payload >> \o Chain(Tcb(c).reorder_buffer, pkt_end)
    ]_vars

----------------------------------------------------------------------------
(* C32: after remove_tcp_connection(c) has returned, c is absent from the  *)
(* table and no further chunk is delivered on the channel c had (the stack *)
(* holds no sender of it), also when a thread is handling an inbound       *)
(* packet of c at the same time.                                           *)
C32_RemovedIsSilent ==
    [][ \A c \in ConnIds :
          /\ last'.op = "remove_tcp_connection" /\ last'.conn_id = c
                => c \notin DOMAIN tcp_connections'
          /\ /\ c \notin DOMAIN tcp_connections
             /\ c \in DOMAIN chan
             /\ last'.op # "tcp_connect"
             => chan'[c] = chan[c]
    ]_vars

(* What holds: a removed connection is absent from the table, and a packet *)
(* whose handling starts after the removal delivers nothing.               *)
RemovedThenHandledIsSilent ==
    [][ \A c \in ConnIds :
          /\ last'.op = "remove_tcp_connection" /\ last'.conn_id = c
                => c \notin DOMAIN tcp_connections'
          /\ /\ c \notin DOMAIN tcp_connections
             /\ c \in DOMAIN chan
             /\ last'.op # "tcp_connect"
             /\ \A t \in Threads : threads[t] = Idle
             => chan'[c] = chan[c]
    ]_vars

----------------------------------------------------------------------------
(* The edges of the TCP state machine *)
Edges ==
    { << "SynSent", "Established" >>, << "SynSent", "Closed" >>,
      << "Established", "CloseWait" >>, << "Established", "FinWait1" >>,
      << "Established", "Closed" >>,
      << "FinWait1", "FinWait2" >>, << "FinWait1", "TimeWait" >>, << "FinWait1", "Closed" >>,
      << "FinWait2", "TimeWait" >>, << "FinWait2", "Closed" >>,
      << "CloseWait", "LastAck" >>, << "CloseWait", "Closed" >>,
      << "LastAck", "Closed" >> }

(* C33: a TCB's state changes only along the edges of the state machine;   *)
(* Closed and TimeWait are never left and no TCB returns to SynSent or     *)
(* Established, under any interleaving of the operations.                  *)
C33_OnlyEdges ==
    [][ \A c \in ConnIds :
          Transition(c) =>
             << tcp_connections[c].state, tcp_connections'[c].state >> \in Edges
    ]_vars

(* What holds: the edges taken inside the critical section of              *)
(* process_tcp_packet and by tcp_close are edges of the state machine.     *)
LockedEdges ==
    [][ \A c \in ConnIds :
          Transition(c) /\ last'.op \in {"process_tcp_packet", "tcp_close"} =>
             << tcp_connections[c].state, tcp_connections'[c].state >> \in Edges
    ]_vars

----------------------------------------------------------------------------
(* The mutex thread t is about to take *)
Wants(t) ==
    IF locking[t].plan # << >> /\ Head(locking[t].plan).op = "lock"
    THEN {Head(locking[t].plan).m} ELSE {}

(* Thread t is about to send on the channel to the application *)
AtSend(t) == locking[t].plan # << >> /\ Head(locking[t].plan) = tx_send

(* Thread t can take its next step now, whatever the application does *)
CanStep(t) ==
    /\ locking[t].plan # << >>
    /\ ~AtSend(t)
    /\ \A m \in Wants(t) : Holder(m) = {}

(* Thread t waits for a mutex another thread (or t itself) holds *)
Blocked(t) == \E m \in Wants(t) : Holder(m) # {}

(* C34: no deadlock. A thread that is about to take the connection-table   *)
(* lock holds neither the outbound-queue lock nor the state-change mutex   *)
(* (the table lock may be held while the queue lock is taken, never the    *)
(* reverse); a thread at a channel send, or parked on the condvar, holds   *)
(* no mutex; and every thread that waits for a mutex waits for a holder    *)
(* that can take its next step, or whose own holder can: every operation   *)
(* other than a blocked channel send completes.                            *)
C34_NoDeadlock ==
    \A t \in Threads :
        /\ TableLock \in Wants(t) => locking[t].held = {}
        /\ QueueLock \in Wants(t) => locking[t].held \subseteq {TableLock}
        /\ StateLock \in Wants(t) => locking[t].held = {}
        /\ AtSend(t) => locking[t].held = {}
        /\ \A m \in Wants(t) : Cardinality(Holder(m)) <= 1
        /\ Blocked(t) =>
              \E u \in Threads \ {t} :
                 /\ Wants(t) \subseteq locking[u].held
                 /\ \/ CanStep(u)
                    \/ \E v \in Threads \ {t, u} :
                          Wants(u) \subseteq locking[v].held /\ CanStep(v)

(* C34 witness: a thread holds the table lock and waits for the queue lock *)
(* that another thread holds inside its push or take.                      *)
C34_Witness ==
    \E t, u \in Threads :
        /\ t # u
        /\ locking[t].held = {TableLock}
        /\ QueueLock \in Wants(t)
        /\ QueueLock \in locking[u].held

----------------------------------------------------------------------------
(* C40: a connection leaves SynSent for Established only on a SYN+ACK that *)
(* acknowledges our SYN (acknowledgment number initial_seq + 1, no RST);   *)
(* any other packet leaves it in SynSent or moves it to Closed.            *)
C40_EstablishedOnlyOnSynAck ==
    [][ \A c \in DOMAIN tcp_connections :
          (InState(c, {"SynSent"}) /\ c \in DOMAIN tcp_connections'
             /\ tcp_connections'[c].state # "SynSent") =>
              \/ tcp_connections'[c].state = "Closed"
              \/ /\ tcp_connections'[c].state = "Established"
                 /\ last'.op = "process_incoming_packet"
                 /\ last'.packet.conn_id = c
                 /\ last'.packet.syn /\ last'.packet.ack /\ ~last'.packet.rst
                 /\ last'.packet.acknowledgment_number =
                       wrapping_add(Tcb(c).initial_seq, 1) ]_vars

----------------------------------------------------------------------------
(* The bytes delivered on connection c before its i-th chunk *)
DeliveredBefore(c, i) == Concat(SubSeq(Chunks(c), 1, i - 1))

(* C35: the EOF marker caused by the peer's FIN is delivered only after    *)
(* every payload byte before the FIN has been delivered, and a connection  *)
(* whose local_ack acknowledges the FIN has had every such byte delivered, *)
(* whatever data and FIN packets (retransmitted FINs with payload or below *)
(* local_ack included) the peer sends.                                     *)
C35_EofAfterAllData ==
    \A c \in DOMAIN chan :
        /\ \A i \in 1 .. Len(chan[c]) :
              chan[c][i].src = "fin" => DeliveredBefore(c, i) = Bytes(0, env.len)
        /\ (InState(c, {"CloseWait"}) /\ Tcb(c).local_ack = wrapping_add(SeqOf(env.len), 1))
              => \E i \in 0 .. Len(chan[c]) : DeliveredBefore(c, i + 1) = Bytes(0, env.len)

----------------------------------------------------------------------------
(* local_ack is not moved backwards while every FIN the peer sends sits at *)
(* the end of its stream.                                                  *)
LocalAckMonotonicForFinAtEnd ==
    [][ \A c \in DOMAIN tcp_connections :
          (c \in DOMAIN tcp_connections' /\ Tcb(c).state # "SynSent"
             /\ "fin_any" \notin env.kinds) =>
              as_i32(wrapping_sub(tcp_connections'[c].local_ack, Tcb(c).local_ack)) >= 0
      ]_vars

(* C36: once a connection is Established, inbound packet handling never    *)
(* moves local_ack backwards in modular order.                             *)
C36_LocalAckMonotonic ==
    [][ \A c \in DOMAIN tcp_connections :
          (c \in DOMAIN tcp_connections' /\ Tcb(c).state # "SynSent") =>
              as_i32(wrapping_sub(tcp_connections'[c].local_ack, Tcb(c).local_ack)) >= 0
      ]_vars

----------------------------------------------------------------------------
(* C37: once the empty EOF chunk is on a connection's receive channel no   *)
(* further chunk follows it, neither a non-empty one nor a second EOF,     *)
(* however the threads that handle inbound packets interleave.             *)
C37_EofIsLast ==
    \A c \in DOMAIN chan : \A i \in 1 .. Len(chan[c]) :
        chan[c][i].bytes = << >> => i = Len(chan[c])

(* With one thread at a time inside process_incoming_packet the EOF chunk  *)
(* is the last chunk of its channel.                                       *)
EofIsLastWhenSerial == AllIdle => C37_EofIsLast

----------------------------------------------------------------------------
(* The segment packet pk carries ends at or before snd_una of its          *)
(* connection: an ACK that covers its last byte has been handled.          *)
Acknowledged(pk) ==
    as_i32(wrapping_sub(wrapping_add(pk.seq, Len(pk.payload)), Tcb(pk.conn_id).snd_una)) <= 0

(* C38: once an inbound ACK that covers the last byte of a sent segment    *)
(* has been handled, check_retransmissions never re-emits that segment,    *)
(* however tcp_send and the handling of the ACK interleave.                *)
C38_NoRetransmitAfterAck ==
    [][ last'.op = "check_retransmissions" =>
          \A i \in 1 .. Len(Emitted) : ~Acknowledged(Emitted[i]) ]_vars

(* C39: the retransmit queue of every TCB is ordered by sequence number,   *)
(* each entry starting where the one before it ends, also while two        *)
(* threads are inside tcp_send for the same connection.                    *)
C39_RetransmitQueueOrdered ==
    \A c \in DOMAIN tcp_connections :
        LET q == Tcb(c).retransmit_queue
        IN \A i \in 1 .. Len(q) - 1 :
              q[i + 1].seq = wrapping_add(q[i].seq, Len(q[i].data))

====
